---- MODULE Spec2Model ----
(***************************************************************************)
(* Model of pyqcf's market-data stores (src/pyqcf/market_data.py):         *)
(*   CurveHandler       zero-coupon curves and their scenario view         *)
(*   FxRateIndexHandler FX index values and their scenario values          *)
(*                                                                         *)
(* Representation.                                                         *)
(*  - A pandas DataFrame of curve points is a sequence of rows             *)
(*    [tenor, value]; row labels are the default RangeIndex, so the label  *)
(*    i of the code is position i + 1 of the sequence.                     *)
(*  - Rates are integers (basis points), FX values are integers and the    *)
(*    exponential is a fixed-point table in thousandths.                   *)
(*  - DataFrames are mutable objects, so the scenario view holds           *)
(*    REFERENCES: a reference is either the DataFrame object owned by the  *)
(*    base entry of a curve (kind "base") or an object of its own (kind    *)
(*    "own") that only the scenario view points to.  An in-place update    *)
(*    through a "base" reference changes zero_coupon_curves.               *)
(*  - A dict is iterated in insertion order: CurveOrder.                   *)
(*  - The calls into the qcfinancial library (QCInterestRate accessors,    *)
(*    QCCurve, Tenor parsing) are taken to succeed.                        *)
(***************************************************************************)
EXTENDS Integers, Sequences, FiniteSets, TLC

VARIABLES
    zero_coupon_curves,    \* CurveHandler.zero_coupon_curves: code -> [df, crv]
    curve_scenario,        \* CurveHandler._scenario: code -> [df (a reference), crv]
    fx_rate_index_values,  \* FxRateIndexHandler.fx_rate_index_values: code -> value
    fx_scenario,           \* FxRateIndexHandler._scenario: code -> value
    constructed,           \* history: the data both handlers were constructed from
    last,                  \* history: the last call, its arguments, whether it returned,
                           \* and which scenario values were off base when it was made
    historic_index_values, \* MarketData.historic_index_values: code -> (date -> value)
    valuer,                \* GetPresentValueForLeg: ignore_collateral, use_ir_scenario,
                           \* use_fx_scenario
    portfolio,             \* the legs of a portfolio, which the calls fix in place
    query                  \* the last read-only call (a lookup, a valuation, a leg
                           \* state), its arguments and what it returned

vars == <<zero_coupon_curves, curve_scenario, fx_rate_index_values, fx_scenario,
          constructed, last, historic_index_values, valuer, portfolio, query>>

----------------------------------------------------------------------------
(* Bounds and input sets *)

MaxShift == 1
MaxIndex == 2
MaxDate == 3
MaxProcessDate == 6

\* shift arguments of add_parallel_shift and move_tenor_of_curve
Shifts == (0 - MaxShift)..MaxShift
\* index arguments of move_tenor_of_curve (row labels, 0-based as in the code)
Indexes == (0 - 1)..MaxIndex

\* insertion order of the keys of zero_coupon_curves
CurveOrder == <<"A", "B">>
StoreCodes == {CurveOrder[i] : i \in 1..Len(CurveOrder)}
\* curve codes a caller may pass: the store's and one the store does not know
InputCodes == StoreCodes \cup {"Z"}

\* tenor labels of a scenario
Labels == {"1M", "1Y"}

\* FX index codes registered at construction, and one that is not
FxCodes == {"USDCLP", "UF"}
FxInputCodes == FxCodes \cup {"EURUSD"}
\* exponential returns, in tenths
Returns == {1}

----------------------------------------------------------------------------
(* DataFrames and curves *)

Row(t, v) == [tenor |-> t, value |-> v]

\* df['tenor'], df['value']
Column(rows, col) == [i \in 1..Len(rows) |-> IF col = "tenor" THEN rows[i].tenor ELSE rows[i].value]

\* build_zero_coupon_curve: the plazos and tasas are paired positionally and
\* the curve carries the rate convention it is given
build_zero_coupon_curve(plazos, tasas, yf, wf) ==
    [plazos |-> plazos, tasas |-> tasas, yf |-> yf, wf |-> wf]

\* one (DataFrame, ZeroCouponCurve) tuple of zero_coupon_curves
Entry(rows, yf, wf) ==
    [df |-> rows,
     crv |-> build_zero_coupon_curve(Column(rows, "tenor"), Column(rows, "value"), yf, wf)]

\* The stores a CurveHandler is constructed from: the DataFrames come from the
\* market data source as they are; nothing sorts them by tenor.
BaseStores ==
    { [c \in StoreCodes |-> IF c = "A" THEN Entry(a, "Act360", "Lin")
                                        ELSE Entry(b, "Act365", "Com")] :
        a \in { <<Row(30, 10), Row(360, 20)>>, <<Row(360, 20), Row(30, 10)>> },
        b \in { <<Row(90, 15)>> } }

BaseFx == [k \in FxCodes |-> IF k = "UF" THEN 38000 ELSE 900]

\* dates are day numbers
Dates == 0..MaxDate

\* one historical series: a value for each date of `dates`
Series(dates, v) == [d \in dates |-> v + d]

\* historic_index_values, with the series of a code left out when it is empty
Historic(series) == [c \in {k \in DOMAIN series : DOMAIN series[k] # {}} |-> series[c]]

BaseHistoric == Historic([c \in {"UF", "USDOBS"} |->
                            Series(Dates, IF c = "UF" THEN 38000 ELSE 900)])

\* the flags a GetPresentValueForLeg is built with when none is given
DefaultValuer ==
    [ignore_collateral |-> FALSE, use_ir_scenario |-> FALSE, use_fx_scenario |-> FALSE]

\* no portfolio held
NoLegs == <<>>

\* no read-only call made yet
NoQuery == [op |-> "none"]

\* references to DataFrame objects
BaseRef(code) == [kind |-> "base", code |-> code, rows |-> <<>>]
OwnRef(rows) == [kind |-> "own", code |-> "", rows |-> rows]

\* the rows of the DataFrame a reference points to, in handler state h
Deref(h, ref) == IF ref.kind = "base" THEN h.base[ref.code].df ELSE ref.rows

\* DataFrame.copy(): a new object with the same rows
DfNoCopy(h, ref) == ref
DfCopy(h, ref) == OwnRef(Deref(h, ref))

\* in-place assignment of a DataFrame's rows through a reference
DfStore(h, ref, rows) ==
    IF ref.kind = "base"
    THEN [h |-> [h EXCEPT !.base[ref.code].df = rows], ref |-> ref]
    ELSE [h |-> h, ref |-> OwnRef(rows)]

\* df["value"] += x, x a scalar (broadcast) given as a sequence, or a list
DfAddValues(rows, adds) ==
    [i \in 1..Len(rows) |-> Row(rows[i].tenor, rows[i].value + adds[i])]

Broadcast(rows, x) == [i \in 1..Len(rows) |-> x]

\* the convention read back from the base curve: get_qc_interest_rate_at(0)
\* .get_year_fraction() / .get_wealth_fraction()
QcfIr(h, code) == [yf |-> h.base[code].crv.yf, wf |-> h.base[code].crv.wf]

\* build the new curve from df and bind (df, new_crv) to _scenario[code]
BindScenario(h, code, ref) ==
    LET rows == Deref(h, ref)
        ir == QcfIr(h, code)
        new_crv == build_zero_coupon_curve(Column(rows, "tenor"), Column(rows, "value"),
                                           ir.yf, ir.wf)
    IN [h EXCEPT !.scen = [c \in DOMAIN h.scen \cup {code} |->
                              IF c = code THEN [df |-> ref, crv |-> new_crv]
                                          ELSE h.scen[c]]]

\* the else branch of the three scenario methods:
\* _scenario[crv] = (zero_coupon_curves[crv][0], zero_coupon_curves[crv][1])
AliasBaseSkipped(h, crv) == h
AliasBase(h, crv) ==
    [h EXCEPT !.scen = [c \in DOMAIN h.scen \cup {crv} |->
                           IF c = crv THEN [df |-> BaseRef(crv), crv |-> h.base[crv].crv]
                                      ELSE h.scen[c]]]

\* the DataFrame the scenario of a curve starts from: zero_coupon_curves[crv][0]
SourceDfOfScenario(h, crv) == h.scen[crv].df
SourceDf(h, crv) == BaseRef(crv)

\* CurveHandler.__init__: _scenario = zero_coupon_curves.copy(), a shallow copy
InitScenario(base) ==
    [c \in DOMAIN base |-> [df |-> BaseRef(c), crv |-> base[c].crv]]

\* get_scenario(), by value: code -> [df rows, crv]
View(base, scen) ==
    [c \in DOMAIN scen |->
        [df |-> Deref([base |-> base, scen |-> scen], scen[c].df), crv |-> scen[c].crv]]

----------------------------------------------------------------------------
(* CurveHandler.add_parallel_shift *)

ParallelBranch(h, crv, shift) ==
    LET df == DfCopy(h, SourceDf(h, crv))
        w == DfStore(h, df, DfAddValues(Deref(h, df), Broadcast(Deref(h, df), shift)))
    IN BindScenario(w.h, crv, w.ref)

RECURSIVE ParallelLoop(_, _, _, _)
ParallelLoop(h, order, shift, curves) ==
    IF order = <<>> THEN h
    ELSE LET crv == Head(order)
             h1 == IF crv \in curves THEN ParallelBranch(h, crv, shift)
                                     ELSE AliasBase(h, crv)
         IN ParallelLoop(h1, Tail(order), shift, curves)

\* the handler state after the call; ok = FALSE when the call raised
AddParallelShift(base, scen, shift, curves) ==
    ParallelLoop([base |-> base, scen |-> scen, ok |-> TRUE], CurveOrder, shift, curves)

\* the codes, of curves and of FX indices, whose scenario value is not the base
\* value (history: what the scenario views held when a call was made)
Moved(base, scen, values, fxscen) ==
    {c \in DOMAIN scen \cap DOMAIN base :
        View(base, scen)[c] # [df |-> base[c].df, crv |-> base[c].crv]}
    \cup {k \in DOMAIN fxscen \cap DOMAIN values : fxscen[k] # values[k]}

MovedNow == Moved(zero_coupon_curves, curve_scenario, fx_rate_index_values, fx_scenario)

NoCall ==
    [op |-> "init", ok |-> TRUE, shift |-> 0, curves |-> {}, index |-> 0, curve |-> "",
     scenarios |-> <<>>, scenario |-> <<>>, before |-> {}]

add_parallel_shift(shift, curves) ==
    LET h == AddParallelShift(zero_coupon_curves, curve_scenario, shift, curves)
    IN /\ zero_coupon_curves' = h.base
       /\ curve_scenario' = h.scen
       /\ last' = [NoCall EXCEPT !.op = "add_parallel_shift", !.ok = h.ok,
                                 !.shift = shift, !.curves = curves, !.before = MovedNow]
       /\ UNCHANGED <<fx_rate_index_values, fx_scenario, constructed,
                    historic_index_values, valuer, portfolio, query>>

----------------------------------------------------------------------------
(* CurveHandler.move_tenor_of_curve *)

\* df.at[index, "value"] += shift: the value is read first, and reading a row
\* label the DataFrame does not have raises KeyError before anything is written
DfAtAddEnlarging(rows, index, shift) ==
    IF index + 1 \in 1..Len(rows)
    THEN [ok |-> TRUE, rows |-> [rows EXCEPT ![index + 1].value = @ + shift]]
    ELSE [ok |-> TRUE, rows |-> Append(rows, Row(0, shift))]
DfAtAddEveryRow(rows, index, shift) ==
    IF index + 1 \in 1..Len(rows)
    THEN [ok |-> TRUE, rows |-> DfAddValues(rows, Broadcast(rows, shift))]
    ELSE [ok |-> FALSE, rows |-> rows]
DfAtAdd(rows, index, shift) ==
    IF index + 1 \in 1..Len(rows)
    THEN [ok |-> TRUE, rows |-> [rows EXCEPT ![index + 1].value = @ + shift]]
    ELSE [ok |-> FALSE, rows |-> rows]

MoveBranch(h, curve, index, shift) ==
    LET df == DfCopy(h, SourceDf(h, curve))
        r == DfAtAdd(Deref(h, df), index, shift)
        w == DfStore(h, df, r.rows)
    IN IF r.ok THEN BindScenario(w.h, curve, w.ref) ELSE [h EXCEPT !.ok = FALSE]

RECURSIVE MoveLoop(_, _, _, _, _)
MoveLoop(h, order, shift, index, curve) ==
    IF order = <<>> \/ ~h.ok THEN h
    ELSE LET crv == Head(order)
             h1 == IF crv = curve THEN MoveBranch(h, curve, index, shift)
                                  ELSE AliasBase(h, crv)
         IN MoveLoop(h1, Tail(order), shift, index, curve)

MoveTenorOfCurve(base, scen, shift, index, curve) ==
    MoveLoop([base |-> base, scen |-> scen, ok |-> TRUE], CurveOrder, shift, index, curve)

move_tenor_of_curve(shift, index, curve) ==
    LET h == MoveTenorOfCurve(zero_coupon_curves, curve_scenario, shift, index, curve)
    IN /\ zero_coupon_curves' = h.base
       /\ curve_scenario' = h.scen
       /\ last' = [NoCall EXCEPT !.op = "move_tenor_of_curve", !.ok = h.ok,
                                 !.shift = shift, !.index = index, !.curve = curve,
                                 !.before = MovedNow]
       /\ UNCHANGED <<fx_rate_index_values, fx_scenario, constructed,
                    historic_index_values, valuer, portfolio, query>>

----------------------------------------------------------------------------
(* wrappers.Tenor and build_tenor_from_str *)

Tenor(agnos, meses, dias) == [agnos |-> agnos, meses |-> meses, dias |-> dias]

\* qcf.Tenor(label) read back through get_years / get_months / get_days
build_tenor_from_str(tenor) ==
    CASE tenor = "1M" -> Tenor(0, 1, 0)
      [] tenor = "1Y" -> Tenor(1, 0, 0)
      [] tenor = "30D" -> Tenor(0, 0, 30)
      [] OTHER -> Tenor(0, 0, 0)

\* Tenor.__hash__ and Tenor.__lt__
TenorHash(t) == t.dias + t.meses * 30 + t.agnos * 12 * 30
TenorLt(t, other) == TenorHash(t) < TenorHash(other)

\* sorted(scenario.items(), key=lambda item: build_tenor_from_str(item[0])):
\* a stable sort that compares the keys with __lt__ only
RECURSIVE InsertByTenor(_, _)
InsertByTenor(sorted, item) ==
    IF sorted = <<>> THEN <<item>>
    ELSE IF TenorLt(build_tenor_from_str(item.label), build_tenor_from_str(Head(sorted).label))
         THEN <<item>> \o sorted
         ELSE <<Head(sorted)>> \o InsertByTenor(Tail(sorted), item)

RECURSIVE SortedByTenor(_)
SortedByTenor(items) ==
    IF items = <<>> THEN <<>>
    ELSE InsertByTenor(SortedByTenor(SubSeq(items, 1, Len(items) - 1)), items[Len(items)])

----------------------------------------------------------------------------
(* CurveHandler.apply_additive_scenario *)

\* a scenario of one curve is a dict label -> shift, kept in insertion order
Item(l, s) == [label |-> l, shift |-> s]

ScenSeqs ==
    {<<>>}
    \cup { <<Item(l, 1)>> : l \in Labels }
    \cup { q \in { <<Item(l1, 1), Item(l2, 2)>> : l1 \in Labels, l2 \in Labels } :
             q[1].label # q[2].label }

\* the scenarios argument: curve code -> scenario of that curve
ScenarioMaps ==
    UNION { [dom -> ScenSeqs] : dom \in SUBSET StoreCodes }
    \cup { [c \in {"Z", "A"} |-> <<Item("1M", 1), Item("1Y", 2)>>],
           [c \in {"Z"} |-> <<Item("1M", 1)>>] }

\* to_add: the shifts in the order of the sorted labels
ToAdd(scenario) ==
    LET srt == SortedByTenor(scenario) IN [i \in 1..Len(srt) |-> srt[i].shift]

AdditiveBranch(h, curve, scenario) ==
    IF Len(scenario) # Len(h.base[curve].df)
    THEN [h EXCEPT !.ok = FALSE]
    ELSE LET df == DfCopy(h, SourceDf(h, curve))
             w == DfStore(h, df, DfAddValues(Deref(h, df), ToAdd(scenario)))
         IN BindScenario(w.h, curve, w.ref)

RECURSIVE AdditiveLoop(_, _, _)
AdditiveLoop(h, order, scenarios) ==
    IF order = <<>> \/ ~h.ok THEN h
    ELSE LET curve == Head(order)
             h1 == IF curve \in DOMAIN scenarios
                   THEN AdditiveBranch(h, curve, scenarios[curve])
                   ELSE AliasBase(h, curve)
         IN AdditiveLoop(h1, Tail(order), scenarios)

ApplyAdditiveScenario(base, scen, scenarios) ==
    AdditiveLoop([base |-> base, scen |-> scen, ok |-> TRUE], CurveOrder, scenarios)

apply_additive_scenario(scenarios) ==
    LET h == ApplyAdditiveScenario(zero_coupon_curves, curve_scenario, scenarios)
    IN /\ zero_coupon_curves' = h.base
       /\ curve_scenario' = h.scen
       /\ last' = [NoCall EXCEPT !.op = "apply_additive_scenario", !.ok = h.ok,
                                 !.scenarios = scenarios, !.before = MovedNow]
       /\ UNCHANGED <<fx_rate_index_values, fx_scenario, constructed,
                    historic_index_values, valuer, portfolio, query>>

----------------------------------------------------------------------------
(* FxRateIndexHandler *)

\* FxRateIndexHandler.__init__: _scenario = {k: v for k, v in values.items()}
InitFxScenario(values) == [k \in DOMAIN values |-> values[k]]

\* exp(retorno) in thousandths, retorno in tenths
Exp(retorno) ==
    CASE retorno = 0 -> 1000
      [] retorno = 1 -> 1105
      [] retorno = 0 - 1 -> 905
      [] OTHER -> 1000

\* value * exp(retorno)
TimesExp(value, retorno) == (value * Exp(retorno)) \div 1000

\* scenario.get(key, 0.0)
Retorno(scenario, key) == IF key \in DOMAIN scenario THEN scenario[key] ELSE 0

\* the value the scenario of an index starts from: the base value of the loop
FxSourceValueOfScenario(values, scen, key) == scen[key]
FxSourceValue(values, scen, key) == values[key]

\* for key, value in fx_rate_index_values.items(): _scenario[key] = value * exp(retorno)
ApplyExpScenarioOverInput(values, scen, scenario) ==
    [k \in DOMAIN scen \cup DOMAIN scenario |->
        IF k \in DOMAIN scenario
        THEN TimesExp(IF k \in DOMAIN values THEN values[k] ELSE 0, scenario[k])
        ELSE scen[k]]
ApplyExpScenario(values, scen, scenario) ==
    [k \in DOMAIN scen \cup DOMAIN values |->
        IF k \in DOMAIN values
        THEN TimesExp(FxSourceValue(values, scen, k), Retorno(scenario, k))
        ELSE scen[k]]

FxScenarioMaps == UNION { [dom -> Returns] : dom \in SUBSET FxInputCodes }

apply_exp_scenario(scenario) ==
    /\ fx_scenario' = ApplyExpScenario(fx_rate_index_values, fx_scenario, scenario)
    /\ last' = [NoCall EXCEPT !.op = "apply_exp_scenario", !.scenario = scenario,
                              !.before = MovedNow]
    /\ UNCHANGED <<zero_coupon_curves, curve_scenario, fx_rate_index_values, constructed,
                 historic_index_values, valuer, portfolio, query>>

----------------------------------------------------------------------------
Init ==
    /\ zero_coupon_curves \in BaseStores
    /\ curve_scenario = InitScenario(zero_coupon_curves)
    /\ fx_rate_index_values = BaseFx
    /\ fx_scenario = InitFxScenario(fx_rate_index_values)
    /\ constructed = [curves |-> zero_coupon_curves, fx |-> fx_rate_index_values]
    /\ last = NoCall
    /\ historic_index_values = BaseHistoric
    /\ valuer = DefaultValuer
    /\ portfolio = NoLegs
    /\ query = NoQuery

Next ==
    \/ \E shift \in Shifts, curves \in SUBSET InputCodes : add_parallel_shift(shift, curves)
    \/ \E shift \in Shifts, index \in Indexes, curve \in InputCodes :
          move_tenor_of_curve(shift, index, curve)
    \/ \E scenarios \in ScenarioMaps : apply_additive_scenario(scenarios)
    \/ \E scenario \in FxScenarioMaps : apply_exp_scenario(scenario)

Spec == Init /\ [][Next]_vars

----------------------------------------------------------------------------
(* MarketData lookups (src/pyqcf/market_data.py, market_data_pending.py) *)

\* a lookup's outcome: ok = FALSE when it raised, and then there is no value
Raised == [ok |-> FALSE, value |-> 0]
Returned(v) == [ok |-> TRUE, value |-> v]

\* FxRateIndexHandler.get_fx_rate_index_value
GetFxRateIndexValueOfBase(values, scen, code, use_scenario) ==
    IF code \notin DOMAIN values THEN Raised ELSE Returned(values[code])
GetFxRateIndexValue(values, scen, code, use_scenario) ==
    IF code \notin DOMAIN values THEN Raised
    ELSE IF use_scenario THEN Returned(scen[code]) ELSE Returned(values[code])

\* config.synth_fx_rate_index_names
synth_fx_rate_index_names == {"OBS2_UF0", "OBS1_UF0", "OBS0_UF0"}

\* private_config of __get_synth_index_value: the two indices and the days
\* the first one is taken back
PrivateConfig(which_index) ==
    [index1 |-> "USDOBS",
     index1_days |-> CASE which_index = "OBS2_UF0" -> 0 - 2
                       [] which_index = "OBS1_UF0" -> 0 - 1
                       [] OTHER -> 0,
     index2 |-> "UF", index2_days |-> 0]

\* calendar.shift(fecha, days): every day is taken to be a business day
CalendarShift(fecha, days) == fecha + days

\* composition: val1 / val2, in thousandths
Composition(val1, val2) == (val1 * 1000) \div val2

\* the try / except of get_index_value: the value of the series at the date,
\* 0.0 when the series or the date is not there
HistoricValueOrRaise(hist, which_date, index_code) ==
    IF index_code \in DOMAIN hist /\ which_date \in DOMAIN hist[index_code]
    THEN Returned(hist[index_code][which_date])
    ELSE Raised
HistoricValue(hist, which_date, index_code) ==
    IF index_code \in DOMAIN hist /\ which_date \in DOMAIN hist[index_code]
    THEN Returned(hist[index_code][which_date])
    ELSE Returned(0)

\* MarketData.__get_synth_index_value
GetSynthIndexValue(hist, which_date, which_index) ==
    LET cfg == PrivateConfig(which_index)
        index1 == HistoricValue(hist, CalendarShift(which_date, cfg.index1_days),
                                cfg.index1).value
        index2 == HistoricValue(hist, CalendarShift(which_date, cfg.index2_days),
                                cfg.index2).value
    IN IF index1 > 0 /\ index2 > 0 THEN Returned(Composition(index1, index2))
                                   ELSE Raised

\* MarketData.get_index_value
GetIndexValue(hist, which_date, index_code) ==
    IF index_code \in synth_fx_rate_index_names
    THEN GetSynthIndexValue(hist, which_date, index_code)
    ELSE HistoricValue(hist, which_date, index_code)

\* the series a MarketData is built with: each of UF and USDOBS is complete,
\* lacks one date, or is not there at all
LookupHistories ==
    { Historic([c \in {"UF", "USDOBS"} |-> IF c = "UF" THEN Series(u, 38000)
                                                      ELSE Series(o, 900)]) :
        u \in {Dates, Dates \ {1}, {}}, o \in {Dates, Dates \ {0}, {}} }

\* index codes a caller may ask for
IndexInputCodes == {"UF", "USDOBS", "ICPCLP"} \cup synth_fx_rate_index_names

get_fx_rate_index_value(fx_rate_index_code, use_scenario) ==
    /\ query' = [op |-> "get_fx_rate_index_value", code |-> fx_rate_index_code,
                 use_scenario |-> use_scenario,
                 values |-> fx_rate_index_values, scen |-> fx_scenario,
                 result |-> GetFxRateIndexValue(fx_rate_index_values, fx_scenario,
                                                fx_rate_index_code, use_scenario)]
    /\ UNCHANGED <<zero_coupon_curves, curve_scenario, fx_rate_index_values, fx_scenario,
                   constructed, last, historic_index_values, valuer, portfolio>>

get_index_value(which_date, index_code) ==
    /\ query' = [op |-> "get_index_value", date |-> which_date, code |-> index_code,
                 result |-> GetIndexValue(historic_index_values, which_date, index_code)]
    /\ UNCHANGED <<zero_coupon_curves, curve_scenario, fx_rate_index_values, fx_scenario,
                   constructed, last, historic_index_values, valuer, portfolio>>

InitLookup ==
    /\ zero_coupon_curves \in BaseStores
    /\ curve_scenario = InitScenario(zero_coupon_curves)
    /\ fx_rate_index_values = BaseFx
    /\ fx_scenario = InitFxScenario(fx_rate_index_values)
    /\ constructed = [curves |-> zero_coupon_curves, fx |-> fx_rate_index_values]
    /\ last = NoCall
    /\ historic_index_values \in LookupHistories
    /\ valuer = DefaultValuer
    /\ portfolio = NoLegs
    /\ query = NoQuery

NextLookup ==
    \/ \E scenario \in FxScenarioMaps : apply_exp_scenario(scenario)
    \/ \E code \in FxInputCodes, use_scenario \in BOOLEAN :
          get_fx_rate_index_value(code, use_scenario)
    \/ \E which_date \in Dates, code \in IndexInputCodes : get_index_value(which_date, code)

SpecLookup == InitLookup /\ [][NextLookup]_vars

----------------------------------------------------------------------------
(* Leg valuation (src/pyqcf/not_yet.py, GetPresentValueForLeg) *)

\* config.contrapartes_col_usd: the keys
contrapartes_col_usd ==
    {"97006000-6", "97036000-K", "97023000-9", "97018000-1", "97043000-8",
     "463182828-6", "404286240-7", "453423276-K", "99500410-0", "99012000-5",
     "96772490-4", "97032000-8", "96579280-5", "97004000-5", "97008000-7",
     "96519800-8", "414935828-0"}

crv_desc_col_usd ==
    [c \in {"USD", "CLP", "CLF", "EUR", "CNY", "JPY"} |->
        CASE c = "USD" -> "CFF"
          [] c = "CLP" -> "CCLPCOLUSD"
          [] c = "CLF" -> "CCLFCOLUSD"
          [] c = "EUR" -> "CEURCOLUSD"
          [] c = "CNY" -> "CCNYCOLUSD"
          [] OTHER -> "FWDJPY-__RIESGO__"]

crv_desc_no_col ==
    [c \in {"USD", "CLP", "CLF", "EUR", "CNY", "JPY"} |->
        CASE c = "USD" -> "CUSDCOLCLP"
          [] c = "CLP" -> "CICPCLP"
          [] c = "CLF" -> "CCLFCOLCLP"
          [] c = "EUR" -> "CEURCOLCLP"
          [] c = "CNY" -> "CCNYCOLCLP"
          [] OTHER -> "FWDJPY-__RIESGO__"]

crv_proy_irs ==
    [i \in {"US0006M", "US0003M", "US0012M", "EURIBOR6M", "TAB-360-UF", "TAB-90-UF",
            "ICPCLP", "SOFRINDX", "SOFRRATE", "TERMSOFR6M"} |->
        CASE i \in {"US0006M", "US0012M"} -> "CL6M"
          [] i = "US0003M" -> "CL3M"
          [] i = "EURIBOR6M" -> "CEURIBOR6M"
          [] i \in {"TAB-360-UF", "TAB-90-UF"} -> "CTABCLF"
          [] i = "ICPCLP" -> "CICPCLP"
          [] OTHER -> "CSOFR"]

which_fx_rate_index ==
    [c \in {"CLP", "USD", "EUR", "CHF", "JPY", "GBP", "COP", "CLF", "CNY", "CAD"} |->
        CASE c = "CLP" -> "1CLP"
          [] c = "USD" -> "USDCLP_RC"
          [] c = "EUR" -> "EURCLP_RC"
          [] c = "CHF" -> "CHFCLP_RC"
          [] c = "JPY" -> "JPYCLP_RC"
          [] c = "GBP" -> "GBPCLP_RC"
          [] c = "COP" -> "COPCLP_RC"
          [] c = "CLF" -> "UF"
          [] c = "CNY" -> "CNYCLP_RC"
          [] OTHER -> "CADCLP_RC"]

\* d[key] of a dict: raises KeyError when the key is not there
DictGet(d, key) == IF key \in DOMAIN d THEN Returned(d[key]) ELSE Raised

\* MarketData.get_zero_coupon_curve(curve_code, use_scenario)[1]
GetZeroCouponCurveOfBase(base, scen, curve_code, use_scenario) ==
    IF curve_code \notin DOMAIN base THEN Raised ELSE Returned(base[curve_code].crv)
GetZeroCouponCurve(base, scen, curve_code, use_scenario) ==
    IF curve_code \notin DOMAIN base THEN Raised
    ELSE IF use_scenario THEN Returned(scen[curve_code].crv)
                         ELSE Returned(base[curve_code].crv)

\* the table __get_discount_curve reads the curve code from
DiscountTableNoCol(leg, ignore_collateral) == crv_desc_no_col
DiscountTable(leg, ignore_collateral) ==
    IF ~ignore_collateral /\ leg.counterparty \in contrapartes_col_usd
    THEN crv_desc_col_usd
    ELSE crv_desc_no_col

\* GetPresentValueForLeg.__get_discount_curve: the code chosen and the curve
GetDiscountCurve(base, scen, leg, ignore_collateral, use_scenario) ==
    LET curva == DictGet(DiscountTable(leg, ignore_collateral), leg.nominal_currency)
    IN IF ~curva.ok THEN [ok |-> FALSE, code |-> "", value |-> 0]
       ELSE LET crv == GetZeroCouponCurve(base, scen, curva.value, use_scenario)
            IN [ok |-> crv.ok, code |-> curva.value, value |-> crv.value]

\* present_value.pv(process_date, qcf_leg, crv): the library's present value,
\* kept as the term of its arguments
Pv(process_date, qcf_leg, crv) == [date |-> process_date, leg |-> qcf_leg, crv |-> crv]

\* the leg after get_fixing.fix_* and fwd_rates.set_rates_*: the index values
\* and the projection curves its rates were set from
SetRates(leg, fixings, curves) == [leg |-> leg, fixings |-> fixings, curves |-> curves]

\* pv * value
M2M(pv, value) == [pv |-> pv, times |-> value]

\* a lookup made by a valuation: what was asked for and whether it was found
Lookup(kind, code, found) == [kind |-> kind, code |-> code, found |-> found]

\* the outcome of a valuation: ok = FALSE when it raised; the lookups made
Valuation(ok, value, lookups) == [ok |-> ok, value |-> value, lookups |-> lookups]

\* the market data a valuation reads
Market(base, scen, values, fxscen, hist) ==
    [base |-> base, scen |-> scen, values |-> values, fxscen |-> fxscen, hist |-> hist]

\* whether a series holds a value for the date
OnSeries(hist, which_date, index_code) ==
    index_code \in DOMAIN hist /\ which_date \in DOMAIN hist[index_code]

\* market_data.get_fx_rate_index_value(which_fx_rate_index[currency], use_fx_scenario):
\* ok = FALSE when it raised, found = whether the value asked for was there
Fx(m, leg, v) ==
    LET code == DictGet(which_fx_rate_index, leg.nominal_currency)
    IN IF ~code.ok THEN [ok |-> FALSE, found |-> FALSE, code |-> "", value |-> 0]
       ELSE LET fx == GetFxRateIndexValue(m.values, m.fxscen, code.value,
                                          v.use_fx_scenario)
            IN [ok |-> fx.ok, found |-> fx.ok, code |-> code.value, value |-> fx.value]

\* market_data.get_index_value(process_date, "UF") of get_m2m_icpclf_leg
Uf(m, process_date) ==
    LET uf == GetIndexValue(m.hist, process_date, "UF")
    IN [ok |-> uf.ok, found |-> OnSeries(m.hist, process_date, "UF"), code |-> "UF",
        value |-> uf.value]

\* the projection curves of a leg, read in order: the curves found, or a raise
\* at the first one that get_zero_coupon_curve does not know
RECURSIVE ProjectionCurves(_, _, _, _)
ProjectionCurves(m, v, codes, sofar) ==
    IF codes = <<>> THEN [ok |-> TRUE, curves |-> sofar.curves, lookups |-> sofar.lookups]
    ELSE LET crv == GetZeroCouponCurve(m.base, m.scen, Head(codes), v.use_ir_scenario)
             seen == sofar.lookups \cup {Lookup("projection", Head(codes), crv.ok)}
         IN IF ~crv.ok THEN [ok |-> FALSE, curves |-> <<>>, lookups |-> seen]
            ELSE ProjectionCurves(m, v, Tail(codes),
                                  [curves |-> Append(sofar.curves, crv.value),
                                   lookups |-> seen])

\* crv_desc = __get_discount_curve(leg); return pv(process_date, qcf_leg, crv_desc) * conv
Discounted(m, v, process_date, leg, qcf_leg, kind, conv, before) ==
    LET crv == GetDiscountCurve(m.base, m.scen, leg, v.ignore_collateral, v.use_ir_scenario)
        lookups == before \cup {Lookup("discount", crv.code, crv.ok)}
    IN IF ~crv.ok THEN Valuation(FALSE, 0, lookups)
       ELSE IF ~conv.ok THEN Valuation(FALSE, 0, lookups \cup {Lookup(kind, conv.code, FALSE)})
       ELSE Valuation(TRUE, M2M(Pv(process_date, qcf_leg, crv.value), conv.value),
                      lookups \cup {Lookup(kind, conv.code, conv.found)})

\* get_m2m_fwd and get_m2m_fixed_leg
GetM2mFixedLeg(m, v, process_date, leg) ==
    Discounted(m, v, process_date, leg, SetRates(leg, <<>>, <<>>), "fx", Fx(m, leg, v), {})

\* an index value read with get_index_value for a fixing or a projection: the
\* value (0.0 when the series has none) and the lookup
IndexRead(m, which_date, index_code) ==
    [value |-> GetIndexValue(m.hist, which_date, index_code).value,
     lookup |-> Lookup("index", index_code, OnSeries(m.hist, which_date, index_code))]

\* get_m2m_icpclp_leg (and get_m2m_sofrindx_leg, which calls it)
GetM2mIcpclpLeg(m, v, process_date, leg) ==
    LET index_code == leg.interest_rate_index
        fixing == IndexRead(m, leg.start_date, index_code)
        index == IndexRead(m, process_date, index_code)
        code == DictGet(crv_proy_irs, index_code)
        proj == ProjectionCurves(m, v, IF code.ok THEN <<code.value>> ELSE <<>>,
                                 [curves |-> <<>>, lookups |-> {fixing.lookup, index.lookup}])
    IN IF ~code.ok \/ ~proj.ok THEN Valuation(FALSE, 0, proj.lookups)
       ELSE Discounted(m, v, process_date, leg,
                       SetRates(leg, <<fixing.value, index.value>>, proj.curves),
                       "fx", Fx(m, leg, v), proj.lookups)

\* get_m2m_icpclf_leg: the present value is multiplied by uf, read with
\* get_index_value before anything else
GetM2mIcpclfLeg(m, v, process_date, leg) ==
    LET uf == Uf(m, process_date)
        fixing_icp == IndexRead(m, leg.start_date, "ICPCLP")
        fixing_uf == IndexRead(m, leg.start_date, "UF")
        icp == IndexRead(m, process_date, "ICPCLP")
        proj == ProjectionCurves(m, v, <<"CICPCLP", "CCLPCOLUSD", "CCLFCOLUSD">>,
                                 [curves |-> <<>>,
                                  lookups |-> {fixing_icp.lookup, fixing_uf.lookup, icp.lookup}])
    IN IF ~uf.ok THEN Valuation(FALSE, 0, {Lookup("uf", "UF", FALSE)})
       ELSE IF ~proj.ok THEN Valuation(FALSE, 0, proj.lookups)
       ELSE Discounted(m, v, process_date, leg,
                       SetRates(leg, <<fixing_icp.value, fixing_uf.value, icp.value, uf.value>>,
                                proj.curves),
                       "uf", uf, proj.lookups)

\* get_m2m_ibor_leg: fix_ibor_leg sets the rate of the coupons fixed by the
\* process date from get_index_value
GetM2mIborLeg(m, v, process_date, leg) ==
    LET index_code == leg.interest_rate_index
        fixing == IndexRead(m, leg.start_date, index_code)
        code == DictGet(crv_proy_irs, index_code)
        proj == ProjectionCurves(m, v, IF code.ok THEN <<code.value>> ELSE <<>>,
                                 [curves |-> <<>>, lookups |-> {fixing.lookup}])
    IN IF ~code.ok \/ ~proj.ok THEN Valuation(FALSE, 0, proj.lookups)
       ELSE Discounted(m, v, process_date, leg,
                       SetRates(leg, <<fixing.value>>, proj.curves),
                       "fx", Fx(m, leg, v), proj.lookups)

\* get_m2m_overnight_index_leg: the time series of the index is
\* historic_index_values[indice][1], a KeyError when the index has no series
GetM2mOvernightIndexLeg(m, v, process_date, leg) ==
    LET index_code == leg.interest_rate_index
        code == DictGet(crv_proy_irs, index_code)
        proj == ProjectionCurves(m, v, IF code.ok THEN <<code.value>> ELSE <<>>,
                                 [curves |-> <<>>, lookups |-> {}])
        series == DictGet(m.hist, index_code)
        lookups == proj.lookups \cup {Lookup("index", index_code, series.ok)}
    IN IF ~code.ok \/ ~proj.ok THEN Valuation(FALSE, 0, proj.lookups)
       ELSE IF ~series.ok THEN Valuation(FALSE, 0, lookups)
       ELSE Discounted(m, v, process_date, leg,
                       SetRates(leg, <<series.value>>, proj.curves),
                       "fx", Fx(m, leg, v), lookups)

\* GetPresentValueForLeg.__call__
GetPresentValueForLeg(m, v, process_date, leg) ==
    CASE leg.type_of_leg \in {"FXFWD", "FIXED_RATE"} -> GetM2mFixedLeg(m, v, process_date, leg)
      [] leg.type_of_leg \in {"ICPCLP", "SOFRINDX"} -> GetM2mIcpclpLeg(m, v, process_date, leg)
      [] leg.type_of_leg = "ICPCLF" -> GetM2mIcpclfLeg(m, v, process_date, leg)
      [] leg.type_of_leg = "FLOATING_RATE" -> GetM2mIborLeg(m, v, process_date, leg)
      [] leg.type_of_leg = "SOFRRATE" -> GetM2mOvernightIndexLeg(m, v, process_date, leg)
      [] OTHER -> Valuation(FALSE, 0, {})

\* insertion order of the keys of the store the valuations read
ValCurveOrder ==
    <<"CFF", "CUSDCOLCLP", "CCLPCOLUSD", "CICPCLP", "CCLFCOLUSD", "CCLFCOLCLP",
      "CEURCOLUSD", "CEURCOLCLP", "CSOFR", "CL3M">>

\* the keys of a store in insertion order
OrderOf(base) == SelectSeq(ValCurveOrder, LAMBDA c : c \in DOMAIN base)

\* a store of one-point curves, a different rate for each
ValStore(codes) ==
    [c \in codes |->
        Entry(<<Row(30, 10 + CHOOSE i \in 1..Len(ValCurveOrder) : ValCurveOrder[i] = c)>>,
              "Act360", "Lin")]

\* the stores a snapshot is built with: every curve, or two curves missing
ValStores ==
    { ValStore({ValCurveOrder[i] : i \in 1..Len(ValCurveOrder)} \ without) :
        without \in {{}, {"CCLFCOLCLP", "CSOFR"}} }

\* the FX indices registered at construction: EURCLP_RC is not
ValFx == [k \in {"UF", "USDCLP_RC", "1CLP"} |->
             CASE k = "UF" -> 38000 [] k = "USDCLP_RC" -> 900 [] OTHER -> 1]

\* the historical series: complete, or UF without a value on date 1, ICPCLP
\* without one on date 0 and no series for SOFRRATE
ValHistories ==
    { Historic([c \in {"UF", "ICPCLP", "SOFRINDX", "SOFRRATE", "US0003M"} |->
                  CASE c = "UF" -> Series(Dates \ gap, 38000)
                    [] c = "ICPCLP" -> Series(Dates \ {g - 1 : g \in gap}, 20000)
                    [] c = "SOFRRATE" -> Series(IF gap = {} THEN Dates ELSE {}, 5)
                    [] OTHER -> Series(Dates, 100)]) :
        gap \in {{}, {1}} }

\* the index a leg of a type is tied to
IndexOfType(type) ==
    CASE type \in {"ICPCLP", "ICPCLF"} -> "ICPCLP"
      [] type = "SOFRINDX" -> "SOFRINDX"
      [] type = "SOFRRATE" -> "SOFRRATE"
      [] type = "FLOATING_RATE" -> "US0003M"
      [] OTHER -> ""

\* OperationLeg: the fields a valuation reads; start_date is the start of the
\* coupon the fixing is made for
ValLeg(type, currency, counterparty) ==
    [type_of_leg |-> type, nominal_currency |-> currency, counterparty |-> counterparty,
     interest_rate_index |-> IndexOfType(type), start_date |-> 0]

\* the legs valued: every type of the switcher with a counterparty of the
\* USD-collateral set, and the fixed-rate and ICP/CLF legs also with one
\* outside it
ValLegs ==
    { ValLeg(tc[1], tc[2], "97006000-6") :
        tc \in {<<"FXFWD", "USD">>, <<"FIXED_RATE", "USD">>, <<"FIXED_RATE", "CLP">>,
                <<"FIXED_RATE", "CLF">>, <<"FIXED_RATE", "EUR">>, <<"ICPCLP", "CLP">>,
                <<"ICPCLF", "CLF">>, <<"SOFRINDX", "USD">>, <<"FLOATING_RATE", "USD">>,
                <<"SOFRRATE", "USD">>} }
    \cup { ValLeg(tc[1], tc[2], "76000000-0") :
        tc \in {<<"FIXED_RATE", "USD">>, <<"FIXED_RATE", "CLP">>, <<"FIXED_RATE", "CLF">>,
                <<"FIXED_RATE", "EUR">>, <<"ICPCLF", "CLF">>} }

\* the flags the valuer is built with: every pair of ignore_collateral and
\* use_ir_scenario, and both values of use_fx_scenario
Valuers ==
    {v \in [ignore_collateral : BOOLEAN, use_ir_scenario : BOOLEAN,
            use_fx_scenario : BOOLEAN] :
        v.use_fx_scenario = (v.ignore_collateral # v.use_ir_scenario)}

\* the process dates of the valuations
ValDates == {d \in Dates : d <= 1}

MarketNow == Market(zero_coupon_curves, curve_scenario, fx_rate_index_values, fx_scenario,
                    historic_index_values)

\* add_parallel_shift on a store whose keys are iterated in `order`
add_parallel_shift_over(order, shift, curves) ==
    LET h == ParallelLoop([base |-> zero_coupon_curves, scen |-> curve_scenario, ok |-> TRUE],
                          order, shift, curves)
    IN /\ zero_coupon_curves' = h.base
       /\ curve_scenario' = h.scen
       /\ last' = [NoCall EXCEPT !.op = "add_parallel_shift", !.ok = h.ok,
                                 !.shift = shift, !.curves = curves, !.before = MovedNow]
       /\ UNCHANGED <<fx_rate_index_values, fx_scenario, constructed,
                      historic_index_values, valuer, portfolio, query>>

get_present_value_for_leg(process_date, leg) ==
    /\ query' = [op |-> "get_present_value_for_leg", date |-> process_date, leg |-> leg,
                 market |-> MarketNow,
                 result |-> GetPresentValueForLeg(MarketNow, valuer, process_date, leg)]
    /\ UNCHANGED <<zero_coupon_curves, curve_scenario, fx_rate_index_values, fx_scenario,
                   constructed, last, historic_index_values, valuer, portfolio>>

InitValuation ==
    /\ zero_coupon_curves \in ValStores
    /\ curve_scenario = InitScenario(zero_coupon_curves)
    /\ fx_rate_index_values = ValFx
    /\ fx_scenario = InitFxScenario(fx_rate_index_values)
    /\ constructed = [curves |-> zero_coupon_curves, fx |-> fx_rate_index_values]
    /\ last = NoCall
    /\ historic_index_values \in ValHistories
    /\ valuer \in Valuers
    /\ portfolio = NoLegs
    /\ query = NoQuery

NextValuation ==
    \/ add_parallel_shift_over(OrderOf(zero_coupon_curves), 1, DOMAIN zero_coupon_curves)
    \/ apply_exp_scenario([k \in {"UF", "USDCLP_RC"} |-> 1])
    \/ \E process_date \in ValDates, leg \in ValLegs :
          get_present_value_for_leg(process_date, leg)

SpecValuation == InitValuation /\ [][NextValuation]_vars

----------------------------------------------------------------------------
(* Leg state (src/pyqcf/not_yet.py, CalculaEstado) *)

\* process dates of the leg states
EstadoDates == 0..MaxProcessDate

\* a coupon of a leg: its window [start_date, end_date), the date it is
\* settled, its nominal, its amortization and its rate (in percent per day)
Cashflow(start_date, end_date, nominal, amortization, rate) ==
    [start_date |-> start_date, end_date |-> end_date, settlement_date |-> end_date,
     nominal |-> nominal, amortization |-> amortization, rate |-> rate]

\* OperationLeg: type, notional currency and the coupons of qcf_leg in order;
\* each coupon starts where the one before it ends
EstadoLeg(type, currency) ==
    [type_of_leg |-> type, nominal_currency |-> currency,
     cashflows |-> <<Cashflow(1, 3, 100, 40, 2), Cashflow(3, 5, 60, 60, 2)>>]

EstadoLegs ==
    { EstadoLeg(tc[1], tc[2]) :
        tc \in {<<"FXFWD", "USD">>, <<"FIXED_RATE", "CLP">>, <<"FIXED_RATE", "USD">>,
                <<"ICPCLP", "CLP">>, <<"ICPCLF", "CLF">>, <<"SOFRINDX", "USD">>,
                <<"FLOATING_RATE", "USD">>, <<"SOFRRATE", "USD">>} }

\* leg.get_min_start_date(), leg.get_max_end_date()
GetMinStartDate(leg) ==
    CHOOSE d \in {leg.cashflows[i].start_date : i \in 1..Len(leg.cashflows)} :
        \A i \in 1..Len(leg.cashflows) : d <= leg.cashflows[i].start_date
GetMaxEndDate(leg) ==
    CHOOSE d \in {leg.cashflows[i].end_date : i \in 1..Len(leg.cashflows)} :
        \A i \in 1..Len(leg.cashflows) : d >= leg.cashflows[i].end_date

\* leg.get_current_cashflow(process_date): the first coupon whose window
\* holds the date
GetCurrentCashflow(leg, process_date) ==
    LET i == CHOOSE k \in 1..Len(leg.cashflows) :
                 /\ leg.cashflows[k].start_date <= process_date
                 /\ process_date < leg.cashflows[k].end_date
                 /\ \A j \in 1..(k - 1) :
                       ~(leg.cashflows[j].start_date <= process_date
                           /\ process_date < leg.cashflows[j].end_date)
    IN leg.cashflows[i]

\* amount_to_clp(amount, currency, date, sd): the amount times the value at
\* the date of the FX index of the currency
AmountToClp(hist, amount, currency, which_date) ==
    amount * GetIndexValue(hist, which_date, which_fx_rate_index[currency]).value

\* the index series of a compounded-index leg: self.icpclp or self.sofrindx
IndexData(hist, leg) == IF leg.type_of_leg = "ICPCLP" THEN hist["ICPCLP"] ELSE hist["SOFRINDX"]

\* cashflow.accrued_interest(date) and cashflow.accrued_interest(date, index_data)
AccruedInterest(cashflow, which_date) ==
    cashflow.nominal * cashflow.rate * (which_date - cashflow.start_date)
AccruedInterestIndex(cashflow, which_date, index_data) ==
    cashflow.nominal * (index_data[which_date] - index_data[cashflow.start_date])

\* cashflow.interest()
Interest(cashflow) == AccruedInterest(cashflow, cashflow.end_date)

\* other_cashflow of __capital_vigente
OtherCashflowOfFirst(process_date, leg) == leg.cashflows[1].nominal
OtherCashflow(process_date, leg) ==
    LET start_date == GetMinStartDate(leg)
        end_date == GetMaxEndDate(leg)
    IN IF process_date < start_date THEN leg.cashflows[1].nominal
       ELSE IF start_date <= process_date /\ process_date < end_date
            THEN GetCurrentCashflow(leg, process_date).nominal
            ELSE 0

\* CalculaEstado.__capital_vigente
CapitalVigente(hist, process_date, leg) ==
    LET amount == IF leg.type_of_leg = "FXFWD" THEN 0 ELSE OtherCashflow(process_date, leg)
    IN AmountToClp(hist, amount, leg.nominal_currency, process_date)

\* que_indice of __reajuste_fx
que_indice ==
    [c \in {"CLP", "CLF", "USD", "EUR"} |->
        CASE c = "CLP" -> "1CLP" [] c = "CLF" -> "UF" [] c = "USD" -> "USDCLP_RC"
          [] OTHER -> "EURCLP_RC"]

\* the FX rate at the start date: the snapshot's value, and the rows of
\* dfd.get_fx_rate_index_values only when that value is 0.0
FxInicialOfExternal(snapshot, data) == IF data.found THEN data.value ELSE snapshot
FxInicial(snapshot, data) ==
    IF snapshot = 0 THEN (IF data.found THEN data.value ELSE snapshot) ELSE snapshot

\* capital_vigente * (1 - fx_inicial / fx_proceso)
Reajuste(capital_vigente, fx_inicial, fx_proceso) ==
    (capital_vigente * (fx_proceso - fx_inicial)) \div fx_proceso

\* CalculaEstado.__reajuste_fx; data is what the external lookup answers
ReajusteFx(hist, data, process_date, leg) ==
    IF leg.type_of_leg = "FXFWD" THEN Returned(0)
    ELSE LET capital_vigente == CapitalVigente(hist, process_date, leg)
             fecha_inicio == GetMinStartDate(leg)
             indice == DictGet(que_indice, leg.nominal_currency)
             fx_inicial == FxInicial(GetIndexValue(hist, fecha_inicio, indice.value).value,
                                     data)
             fx_proceso == GetIndexValue(hist, process_date, indice.value).value
         IN IF fecha_inicio > process_date THEN Returned(0)
            ELSE IF ~indice.ok THEN Raised
            ELSE IF fx_inicial = 0 THEN Raised
            ELSE IF fx_proceso > 0
                 THEN Returned(Reajuste(capital_vigente, fx_inicial, fx_proceso))
                 ELSE Raised

\* the leg types __interes_devengado, __interes_pagado and __capital_pagado
\* have a branch for; every other type takes simple_cashflow
FixedRateTypes == {"FIXED_RATE"}
CompIndexTypes == {"ICPCLP", "SOFRINDX"}

\* accrued interest of the coupon in progress, by the branch of the leg type
CurrentAccrued(hist, process_date, leg) ==
    LET cashflow == GetCurrentCashflow(leg, process_date)
    IN IF leg.type_of_leg \in CompIndexTypes
       THEN AccruedInterestIndex(cashflow, process_date, IndexData(hist, leg))
       ELSE AccruedInterest(cashflow, process_date)

\* CalculaEstado.__interes_devengado
InteresDevengado(hist, process_date, leg) ==
    LET start_date == GetMinStartDate(leg)
        end_date == GetMaxEndDate(leg)
        amount == IF leg.type_of_leg \in FixedRateTypes \cup CompIndexTypes
                  THEN IF process_date < start_date THEN 0
                       ELSE IF start_date <= process_date /\ process_date < end_date
                            THEN CurrentAccrued(hist, process_date, leg)
                            ELSE 0
                  ELSE 0
    IN AmountToClp(hist, amount, leg.nominal_currency, process_date)

\* the loop of __interes_pagado and __capital_pagado from coupon i on: add
\* the coupon's amount while process_date >= cashflow_end_date, return the
\* total at the first coupon that has not ended
RECURSIVE PaidLoop(_, _, _, _, _)
PaidLoop(cashflows, amounts, i, process_date, total) ==
    IF i > Len(cashflows) THEN total
    ELSE IF process_date >= cashflows[i].end_date
         THEN PaidLoop(cashflows, amounts, i + 1, process_date, total + amounts[i])
         ELSE total

\* the interest of an ended coupon, by the branch of the leg type
PaidInterest(hist, leg, cashflow) ==
    IF leg.type_of_leg \in CompIndexTypes
    THEN AccruedInterestIndex(cashflow, cashflow.end_date, IndexData(hist, leg))
    ELSE Interest(cashflow)

\* CalculaEstado.__interes_pagado
InteresPagado(hist, process_date, leg) ==
    IF leg.type_of_leg \notin FixedRateTypes \cup CompIndexTypes THEN 0
    ELSE IF process_date <= GetMinStartDate(leg) THEN 0
    ELSE PaidLoop(leg.cashflows,
                  [i \in 1..Len(leg.cashflows) |->
                      AmountToClp(hist, PaidInterest(hist, leg, leg.cashflows[i]),
                                  leg.nominal_currency, leg.cashflows[i].end_date)],
                  1, process_date, 0)

\* the amortization of an ended coupon as __capital_pagado adds it: the
\* fixed-rate branch converts it at the coupon's end date, the
\* compounded-index branch adds it as it is
PaidAmortization(hist, leg, cashflow) ==
    IF leg.type_of_leg \in FixedRateTypes
    THEN AmountToClp(hist, cashflow.amortization, leg.nominal_currency, cashflow.end_date)
    ELSE cashflow.amortization

\* CalculaEstado.__capital_pagado
CapitalPagado(hist, process_date, leg) ==
    IF leg.type_of_leg \notin FixedRateTypes \cup CompIndexTypes THEN 0
    ELSE IF process_date <= GetMinStartDate(leg) THEN 0
    ELSE PaidLoop(leg.cashflows,
                  [i \in 1..Len(leg.cashflows) |->
                      PaidAmortization(hist, leg, leg.cashflows[i])],
                  1, process_date, 0)

\* saldo = capital_vigente + interes_devengado
SaldoOfCapital(capital_vigente, interes_devengado) == capital_vigente
Saldo(capital_vigente, interes_devengado) == capital_vigente + interes_devengado

\* CalculaEstado.__call__: the Estado, or a raise when __reajuste_fx raises;
\* valor_mercado is what get_mtm answers for the leg
CalculaEstado(hist, data, valor_mercado, process_date, leg) ==
    LET capital_vigente == CapitalVigente(hist, process_date, leg)
        reajuste_fx == ReajusteFx(hist, data, process_date, leg)
        interes_devengado == InteresDevengado(hist, process_date, leg)
        interes_pagado == InteresPagado(hist, process_date, leg)
        capital_pagado == CapitalPagado(hist, process_date, leg)
        saldo == Saldo(capital_vigente, interes_devengado)
    IN [ok |-> reajuste_fx.ok,
        capital_vigente |-> capital_vigente,
        reajuste_fx |-> reajuste_fx.value,
        interes_devengado |-> interes_devengado,
        interes_pagado |-> interes_pagado,
        flujo_capital |-> capital_pagado,
        saldo |-> saldo,
        valor_mercado |-> valor_mercado,
        ajuste_valor_mercado |-> valor_mercado - saldo,
        flujos |-> interes_pagado + capital_pagado]

\* a series with the same value on every date
ConstSeries(dates, v) == [d \in dates |-> v]

\* the series of the snapshot: the compounded indices are complete (the
\* constructor copies them), the dollar is complete or has no value on the
\* dates of `gap`
EstadoHistories ==
    { Historic([c \in {"1CLP", "UF", "USDCLP_RC", "ICPCLP", "SOFRINDX"} |->
                  CASE c = "1CLP" -> ConstSeries(EstadoDates, 1)
                    [] c = "UF" -> Series(EstadoDates, 38000)
                    [] c = "USDCLP_RC" -> Series(EstadoDates \ gap, 900)
                    [] c = "ICPCLP" -> Series(EstadoDates, 20000)
                    [] OTHER -> Series(EstadoDates, 100)]) :
        gap \in {{}, {1, 4}} }

\* what dfd.get_fx_rate_index_values answers: no row, or a row with a value
ExternalData == {[found |-> FALSE, value |-> 0], [found |-> TRUE, value |-> 850]}

\* what get_mtm answers for a leg
MtmValues == {0 - 7, 12000}

calcula_estado(process_date, leg, data, valor_mercado) ==
    /\ query' = [op |-> "calcula_estado", date |-> process_date, leg |-> leg,
                 data |-> data,
                 result |-> CalculaEstado(historic_index_values, data, valor_mercado,
                                          process_date, leg)]
    /\ UNCHANGED <<zero_coupon_curves, curve_scenario, fx_rate_index_values, fx_scenario,
                   constructed, last, historic_index_values, valuer, portfolio>>

InitEstado ==
    /\ zero_coupon_curves \in ValStores
    /\ curve_scenario = InitScenario(zero_coupon_curves)
    /\ fx_rate_index_values = ValFx
    /\ fx_scenario = InitFxScenario(fx_rate_index_values)
    /\ constructed = [curves |-> zero_coupon_curves, fx |-> fx_rate_index_values]
    /\ last = NoCall
    /\ historic_index_values \in EstadoHistories
    /\ valuer = DefaultValuer
    /\ portfolio = NoLegs
    /\ query = NoQuery

NextEstado ==
    \E process_date \in EstadoDates, leg \in EstadoLegs, data \in ExternalData,
       valor_mercado \in MtmValues :
        calcula_estado(process_date, leg, data, valor_mercado)

SpecEstado == InitEstado /\ [][NextEstado]_vars

----------------------------------------------------------------------------
(* Properties *)

\* get_scenario() of the current state, by value
CurView == View(zero_coupon_curves, curve_scenario)

\* the (rows, curve) values of the base entries
BaseView == [c \in DOMAIN zero_coupon_curves |->
                [df |-> zero_coupon_curves[c].df, crv |-> zero_coupon_curves[c].crv]]

CurveOps == {"add_parallel_shift", "move_tenor_of_curve", "apply_additive_scenario"}

\* rows and curve of a scenario entry are the base's with adds[i] added to the
\* i-th rate, tenor by tenor
ShiftedBy(entry, base, adds) ==
    /\ Len(entry.df) = Len(base.df)
    /\ \A i \in 1..Len(base.df) :
         /\ entry.df[i].tenor = base.df[i].tenor
         /\ entry.df[i].value = base.df[i].value + adds[i]
         /\ entry.crv.plazos[i] = base.crv.plazos[i]
         /\ entry.crv.tasas[i] = base.crv.tasas[i] + adds[i]

\* C1: no scenario call, returning or raising, changes a base value: every
\* curve of zero_coupon_curves and every value of fx_rate_index_values is what
\* it was at construction.
C1_BaseNeverChanges ==
    /\ zero_coupon_curves = constructed.curves
    /\ fx_rate_index_values = constructed.fx

C1_Witness ==
    /\ last.op \in CurveOps
    /\ CurView # BaseView
    /\ fx_scenario # fx_rate_index_values

\* C2 (as claimed): apply_additive_scenario raises when the scenario of some
\* curve of the store has another number of vertices than the curve, and the
\* scenario view is then, for every curve, what it was before the call.
VertexMismatch(scenarios, base) ==
    \E c \in DOMAIN scenarios \cap DOMAIN base : Len(scenarios[c]) # Len(base[c].df)

C2_RejectedWithoutMutation ==
    [][(last'.op = "apply_additive_scenario"
          /\ VertexMismatch(last'.scenarios, zero_coupon_curves))
        => (~last'.ok
              /\ View(zero_coupon_curves', curve_scenario') = CurView)]_vars

\* C3: the curve scenario view is last-write-wins: after a call that returned,
\* the view is the one the same call gives on a freshly constructed store.
OnFreshStore ==
    LET b == constructed.curves
        s == InitScenario(b)
        h == CASE last.op = "add_parallel_shift" ->
                    AddParallelShift(b, s, last.shift, last.curves)
               [] last.op = "move_tenor_of_curve" ->
                    MoveTenorOfCurve(b, s, last.shift, last.index, last.curve)
               [] last.op = "apply_additive_scenario" ->
                    ApplyAdditiveScenario(b, s, last.scenarios)
               [] OTHER -> [base |-> b, scen |-> s, ok |-> TRUE]
    IN View(h.base, h.scen)

C3_LastWriteWins ==
    (last.op \in CurveOps /\ last.ok) => CurView = OnFreshStore

C3_Witness ==
    /\ last.op = "add_parallel_shift" /\ last.ok
    /\ last.shift # 0 /\ last.curves = {"A"}
    /\ "B" \in last.before
    /\ CurView["A"] # BaseView["A"] /\ CurView["B"] = BaseView["B"]

\* C4: after add_parallel_shift(s, curves) every rate point of a named curve
\* is the base rate at the same tenor plus s, and the scenario entry of a
\* curve that is not named is the base entry.
C4_ParallelShift ==
    (last.op = "add_parallel_shift" /\ last.ok) =>
        \A c \in DOMAIN CurView :
            IF c \in last.curves
            THEN ShiftedBy(CurView[c], BaseView[c], Broadcast(BaseView[c].df, last.shift))
            ELSE CurView[c] = BaseView[c]

C4_Witness ==
    /\ last.op = "add_parallel_shift" /\ last.ok /\ last.shift # 0
    /\ last.curves \cap StoreCodes # {}
    /\ StoreCodes \ last.curves # {}

\* C5: in every reachable state the scenario view of the curves has the keys
\* of zero_coupon_curves and the FX scenario has the keys of
\* fx_rate_index_values, also after calls that name unknown codes.
C5_SameKeys ==
    /\ DOMAIN curve_scenario = DOMAIN zero_coupon_curves
    /\ DOMAIN fx_scenario = DOMAIN fx_rate_index_values

C5_Witness ==
    /\ last.op = "apply_exp_scenario"
    /\ \E k \in DOMAIN last.scenario : k \notin FxCodes
    /\ CurView # BaseView

\* C6 (as claimed): add_parallel_shift raises when its list names a code that
\* is no key of zero_coupon_curves, and move_tenor_of_curve raises when its
\* curve code is unknown.
C6_UnknownCodeRejected ==
    (\/ last.op = "add_parallel_shift" /\ ~(last.curves \subseteq DOMAIN zero_coupon_curves)
     \/ last.op = "move_tenor_of_curve" /\ last.curve \notin DOMAIN zero_coupon_curves)
    => ~last.ok

\* C7: move_tenor_of_curve raises when the index is no row label of the named
\* curve, and then no curve, base or scenario, has gained a point.
RowLabels(rows) == 0..(Len(rows) - 1)

C7_BadIndexRejected ==
    (/\ last.op = "move_tenor_of_curve"
     /\ last.curve \in DOMAIN zero_coupon_curves
     /\ last.index \notin RowLabels(constructed.curves[last.curve].df))
    => /\ ~last.ok
       /\ \A c \in DOMAIN CurView :
            /\ Len(CurView[c].df) = Len(constructed.curves[c].df)
            /\ Len(CurView[c].crv.tasas) = Len(constructed.curves[c].df)
            /\ Len(zero_coupon_curves[c].df) = Len(constructed.curves[c].df)

C7_Witness ==
    /\ last.op = "move_tenor_of_curve"
    /\ last.curve \in DOMAIN zero_coupon_curves
    /\ last.index \notin RowLabels(constructed.curves[last.curve].df)
    /\ ~last.ok

\* C8: after a move_tenor_of_curve(shift, index, curve) that returned, the
\* named curve has base rate + shift at position index and the base rate at
\* every other position, and every other curve has its base entry.
C8_MoveTenor ==
    (last.op = "move_tenor_of_curve" /\ last.ok) =>
        \A c \in DOMAIN CurView :
            IF c = last.curve
            THEN ShiftedBy(CurView[c], BaseView[c],
                           [i \in 1..Len(BaseView[c].df) |->
                               IF i = last.index + 1 THEN last.shift ELSE 0])
            ELSE CurView[c] = BaseView[c]

C8_Witness ==
    /\ last.op = "move_tenor_of_curve" /\ last.ok /\ last.shift # 0
    /\ last.curve \in DOMAIN zero_coupon_curves
    /\ Len(BaseView[last.curve].df) > 1

\* C9 (as claimed): apply_additive_scenario adds the shift of the i-th label
\* in increasing parsed tenor length to the i-th point of the curve in
\* increasing tenor order, whatever the order of the labels in the scenario
\* and whatever the row order of the curve's points.
TenorRank(rows, j) == 1 + Cardinality({k \in 1..Len(rows) : rows[k].tenor < rows[j].tenor})
LabelRank(scenario, j) ==
    1 + Cardinality({k \in 1..Len(scenario) :
                       TenorHash(build_tenor_from_str(scenario[k].label))
                         < TenorHash(build_tenor_from_str(scenario[j].label))})
ShiftOfRank(scenario, r) ==
    LET j == CHOOSE k \in 1..Len(scenario) : LabelRank(scenario, k) = r
    IN scenario[j].shift

C9_ShiftByTenorOrder ==
    (last.op = "apply_additive_scenario" /\ last.ok) =>
        \A c \in DOMAIN last.scenarios \cap DOMAIN CurView :
            ShiftedBy(CurView[c], BaseView[c],
                      [j \in 1..Len(BaseView[c].df) |->
                          ShiftOfRank(last.scenarios[c], TenorRank(BaseView[c].df, j))])

\* C10: after apply_exp_scenario(m) every registered index that is no key of
\* m has its base value as scenario value, whatever earlier calls did; with
\* m empty the scenario values are the base values.
C10_AbsentIndexAtBase ==
    (last.op = "apply_exp_scenario") =>
        /\ \A k \in DOMAIN fx_rate_index_values \ DOMAIN last.scenario :
              fx_scenario[k] = fx_rate_index_values[k]
        /\ (last.scenario = <<>> => fx_scenario = fx_rate_index_values)

C10_Witness ==
    /\ last.op = "apply_exp_scenario"
    /\ \E k \in DOMAIN fx_rate_index_values :
          k \notin DOMAIN last.scenario /\ k \in last.before
    /\ \E k \in DOMAIN fx_rate_index_values :
          k \in DOMAIN last.scenario /\ fx_scenario[k] # fx_rate_index_values[k]

\* C11: get_fx_rate_index_value raises for every code that was not registered
\* at construction, also after a scenario map that mentions the code was
\* applied; for a registered code it returns the scenario value when
\* use_scenario is true and the base value when it is false.
C11_FxValuePerFlag ==
    (query.op = "get_fx_rate_index_value") =>
        IF query.code \in DOMAIN constructed.fx
        THEN /\ query.result.ok
             /\ query.result.value = IF query.use_scenario THEN query.scen[query.code]
                                                           ELSE query.values[query.code]
        ELSE ~query.result.ok

C11_Witness ==
    /\ query.op = "get_fx_rate_index_value"
    /\ query.code \notin DOMAIN constructed.fx
    /\ last.op = "apply_exp_scenario"
    /\ query.code \in DOMAIN last.scenario
    /\ ~query.result.ok

\* the index has no value on the historical series for the date
NoValueOnSeries(hist, which_date, index_code) ==
    ~(index_code \in DOMAIN hist /\ which_date \in DOMAIN hist[index_code])

\* C12 as stated: get_index_value returns 0.0 and does not fail whenever the
\* requested index has no value on the historical series for the requested
\* date, for every index code.
C12_ZeroForEveryCode ==
    (query.op = "get_index_value"
       /\ NoValueOnSeries(historic_index_values, query.date, query.code)) =>
        (query.result.ok /\ query.result.value = 0)

\* C12 amended: get_index_value returns 0.0 and does not fail whenever an
\* index that is not synthetic has no value on the historical series for the
\* date; for a synthetic index (OBS2_UF0, OBS1_UF0, OBS0_UF0) it raises
\* whenever USDOBS at the date taken back or UF at the date has no positive
\* value, and returns their quotient otherwise.
C12_ZeroUnlessSynthetic ==
    (query.op = "get_index_value") =>
        LET hist == historic_index_values
            back == CASE query.code = "OBS2_UF0" -> 2
                      [] query.code = "OBS1_UF0" -> 1
                      [] OTHER -> 0
            obs == IF NoValueOnSeries(hist, query.date - back, "USDOBS") THEN 0
                   ELSE hist["USDOBS"][query.date - back]
            uf == IF NoValueOnSeries(hist, query.date, "UF") THEN 0
                  ELSE hist["UF"][query.date]
        IN IF query.code \in {"OBS2_UF0", "OBS1_UF0", "OBS0_UF0"}
           THEN IF obs > 0 /\ uf > 0
                THEN query.result.ok /\ query.result.value = (obs * 1000) \div uf
                ELSE ~query.result.ok
           ELSE /\ query.result.ok
                /\ NoValueOnSeries(hist, query.date, query.code) => query.result.value = 0

C12_Witness ==
    /\ query.op = "get_index_value"
    /\ query.code = "UF"
    /\ "UF" \in DOMAIN historic_index_values
    /\ NoValueOnSeries(historic_index_values, query.date, "UF")
    /\ query.result = [ok |-> TRUE, value |-> 0]

\* the lookups a claim about unresolved market data is about
MarketLookups(result) ==
    {l \in result.lookups : l.kind \in {"discount", "projection", "fx", "uf"}}

\* C13: a leg valuation never partially succeeds: whenever a discount curve,
\* a projection curve or an FX/UF index value needed for the leg cannot be
\* resolved, the call raises and returns no number.
C13_NoPartialSuccess ==
    (query.op = "get_present_value_for_leg") =>
        ((\E l \in MarketLookups(query.result) : ~l.found) => ~query.result.ok)

\* the discount curve code the rule of the claim gives for a leg
RuleCurve(leg, v) ==
    IF ~v.ignore_collateral /\ leg.counterparty \in contrapartes_col_usd
    THEN crv_desc_col_usd[leg.nominal_currency]
    ELSE crv_desc_no_col[leg.nominal_currency]

\* C14: the discount curve of a leg is the entry of the collateralized-in-USD
\* table for the leg's notional currency if and only if collateral is not
\* ignored and the counterparty is in the USD-collateral set, otherwise the
\* entry of the uncollateralized table; the curve object discounted with is
\* the scenario curve when the scenario flag is set and the base curve when
\* it is not.
C14_DiscountCurveRule ==
    (query.op = "get_present_value_for_leg") =>
        LET code == RuleCurve(query.leg, valuer)
            m == query.market
        IN /\ \A l \in query.result.lookups : l.kind = "discount" => l.code = code
           /\ query.result.ok =>
                 /\ \E l \in query.result.lookups : l.kind = "discount"
                 /\ query.result.value.pv.crv =
                       IF valuer.use_ir_scenario THEN m.scen[code].crv ELSE m.base[code].crv

C14_Witness ==
    /\ query.op = "get_present_value_for_leg"
    /\ query.result.ok
    /\ ~valuer.ignore_collateral
    /\ valuer.use_ir_scenario
    /\ query.leg.counterparty \in contrapartes_col_usd
    /\ query.leg.nominal_currency = "CLF"
    /\ query.result.value.pv.crv = query.market.scen["CCLFCOLUSD"].crv
    /\ query.market.scen["CCLFCOLUSD"].crv # query.market.base["CCLFCOLUSD"].crv

\* C15: for every leg type of the dispatch table GetPresentValueForLeg
\* multiplies the present value by the scenario value of the conversion index
\* when use_fx_scenario is true and by its base value when it is false; the
\* conversion index is UF for ICP/CLF legs and the FX index of the notional
\* currency for all other legs.
C15_ConversionPerFlag ==
    (query.op = "get_present_value_for_leg" /\ query.result.ok) =>
        LET index == IF query.leg.type_of_leg = "ICPCLF" THEN "UF"
                     ELSE which_fx_rate_index[query.leg.nominal_currency]
        IN query.result.value.times =
              IF valuer.use_fx_scenario THEN query.market.fxscen[index]
                                        ELSE query.market.values[index]

\* the value of an index on the snapshot's series at a date, 0 when it has none
OnDate(hist, which_date, index_code) ==
    IF NoValueOnSeries(hist, which_date, index_code) THEN 0
    ELSE hist[index_code][which_date]

\* the coupons of a leg whose window [start_date, end_date) holds the date
InProgress(leg, which_date) ==
    {i \in 1..Len(leg.cashflows) :
        leg.cashflows[i].start_date <= which_date /\ which_date < leg.cashflows[i].end_date}

\* the notional the claim names for a leg at a date
NamedNotional(leg, which_date) ==
    IF leg.type_of_leg = "FXFWD" THEN 0
    ELSE IF \A i \in 1..Len(leg.cashflows) : which_date < leg.cashflows[i].start_date
         THEN leg.cashflows[1].nominal
    ELSE IF \A i \in 1..Len(leg.cashflows) : which_date >= leg.cashflows[i].end_date
         THEN 0
    ELSE leg.cashflows[CHOOSE i \in InProgress(leg, which_date) : TRUE].nominal

\* C16 as stated: the outstanding notional is the first coupon's notional
\* before the leg's earliest start date, the notional of the coupon with
\* start_date <= process_date < end_date inside the active window, 0 from the
\* last coupon's end date on, and 0 at every date for FX-forward legs.
C16_OutstandingNotional ==
    (query.op = "calcula_estado") =>
        query.result.capital_vigente = NamedNotional(query.leg, query.date)

\* C16 amended: the outstanding notional is that notional expressed in CLP,
\* that is multiplied by the value at the process date of the FX index of the
\* leg's notional currency (0.0 when the series has no value on that date).
C16_OutstandingNotionalInClp ==
    (query.op = "calcula_estado") =>
        query.result.capital_vigente =
            NamedNotional(query.leg, query.date)
              * OnDate(historic_index_values, query.date,
                       which_fx_rate_index[query.leg.nominal_currency])

C16_Witness ==
    /\ query.op = "calcula_estado"
    /\ query.leg.type_of_leg = "FIXED_RATE"
    /\ query.leg.nominal_currency = "USD"
    /\ InProgress(query.leg, query.date) = {2}
    /\ query.result.capital_vigente = 60 * 903

\* the FX index of the revaluation of a leg
RevalIndex(leg) ==
    CASE leg.nominal_currency = "CLP" -> "1CLP"
      [] leg.nominal_currency = "CLF" -> "UF"
      [] leg.nominal_currency = "USD" -> "USDCLP_RC"
      [] OTHER -> "EURCLP_RC"

\* the earliest start date of a leg
FirstStart(leg) ==
    CHOOSE d \in EstadoDates :
        /\ \E i \in 1..Len(leg.cashflows) : leg.cashflows[i].start_date = d
        /\ \A i \in 1..Len(leg.cashflows) : leg.cashflows[i].start_date >= d

\* the FX rate at the start date after the fallback: the external value only
\* when the snapshot value is exactly 0
StartRate(q) ==
    LET snapshot == OnDate(historic_index_values, FirstStart(q.leg), RevalIndex(q.leg))
    IN IF snapshot # 0 THEN snapshot
       ELSE IF q.data.found THEN q.data.value ELSE 0

ProcessRate(q) == OnDate(historic_index_values, q.date, RevalIndex(q.leg))

RECURSIVE SumOver(_, _)
SumOver(amounts, keep) ==
    IF keep = {} THEN 0
    ELSE LET i == CHOOSE k \in keep : TRUE
         IN amounts[i] + SumOver(amounts, keep \ {i})

\* the settled coupons of the claim: those that ended before the date
Settled(leg, which_date) ==
    {i \in 1..Len(leg.cashflows) : leg.cashflows[i].end_date < which_date}

\* the realized interest of a coupon
RealizedInterest(leg, cashflow) ==
    IF leg.type_of_leg \in {"ICPCLP", "SOFRINDX"}
    THEN cashflow.nominal
           * (historic_index_values[leg.type_of_leg][cashflow.end_date]
                - historic_index_values[leg.type_of_leg][cashflow.start_date])
    ELSE cashflow.nominal * cashflow.rate * (cashflow.end_date - cashflow.start_date)

\* the FX rate of a coupon's settlement date
SettlementRate(leg, cashflow) ==
    OnDate(historic_index_values, cashflow.settlement_date,
           which_fx_rate_index[leg.nominal_currency])

\* C18: paid interest and paid principal of a leg with coupons are the sums,
\* over exactly the settled coupons (end_date < process_date; a coupon ending
\* on the process date is not settled), of the coupon's realized interest and
\* amortization, each converted at the FX rate of the coupon's settlement
\* date.
C18_PaidOverSettledCoupons ==
    (query.op = "calcula_estado" /\ query.leg.type_of_leg # "FXFWD") =>
        LET leg == query.leg
            n == Len(leg.cashflows)
        IN /\ query.result.interes_pagado =
                 SumOver([i \in 1..n |-> RealizedInterest(leg, leg.cashflows[i])
                                           * SettlementRate(leg, leg.cashflows[i])],
                         Settled(leg, query.date))
           /\ query.result.flujo_capital =
                 SumOver([i \in 1..n |-> leg.cashflows[i].amortization
                                           * SettlementRate(leg, leg.cashflows[i])],
                         Settled(leg, query.date))

\* C19: every Estado returned has balance = outstanding notional + accrued
\* interest, M2M adjustment = market value - balance and cumulative realized
\* cashflow total = paid interest + paid principal.
C19_EstadoIdentities ==
    (query.op = "calcula_estado" /\ query.result.ok) =>
        /\ query.result.saldo = query.result.capital_vigente + query.result.interes_devengado
        /\ query.result.ajuste_valor_mercado
              = query.result.valor_mercado - query.result.saldo
        /\ query.result.flujos = query.result.interes_pagado + query.result.flujo_capital

C19_Witness ==
    /\ query.op = "calcula_estado"
    /\ query.result.ok
    /\ query.result.capital_vigente > 0
    /\ query.result.interes_devengado > 0
    /\ query.result.interes_pagado > 0
    /\ query.result.flujo_capital > 0
    /\ query.result.valor_mercado < 0

\* the accrued-to-date amount of the coupon in progress, in CLP
AccruedToDate(q) ==
    LET c == q.leg.cashflows[CHOOSE i \in InProgress(q.leg, q.date) : TRUE]
        amount == IF q.leg.type_of_leg \in {"ICPCLP", "SOFRINDX"}
                  THEN c.nominal * (historic_index_values[q.leg.type_of_leg][q.date]
                                      - historic_index_values[q.leg.type_of_leg][c.start_date])
                  ELSE c.nominal * c.rate * (q.date - c.start_date)
    IN amount * OnDate(historic_index_values, q.date,
                       which_fx_rate_index[q.leg.nominal_currency])

\* C20: as the process date advances day by day over a leg with coupons, the
\* accrued interest is 0 before the first coupon starts, is the accrued-to-date
\* amount of the coupon in progress and does not decrease while the date stays
\* inside one coupon window, is 0 on the day the next window starts and is 0
\* from the last coupon's end date on, for every leg type with coupons.
C20_AccruedOverDays ==
    [][(query'.op = "calcula_estado" /\ query'.leg.type_of_leg # "FXFWD") =>
         /\ (InProgress(query'.leg, query'.date) = {}
               => query'.result.interes_devengado = 0)
         /\ (InProgress(query'.leg, query'.date) # {}
               => query'.result.interes_devengado = AccruedToDate(query'))
         /\ ((\E i \in 1..Len(query'.leg.cashflows) :
                 query'.leg.cashflows[i].start_date = query'.date)
               => query'.result.interes_devengado = 0)
         /\ ((/\ query.op = "calcula_estado"
              /\ query.leg = query'.leg
              /\ query'.date = query.date + 1
              /\ InProgress(query.leg, query.date) # {}
              /\ InProgress(query.leg, query.date) = InProgress(query'.leg, query'.date))
               => query'.result.interes_devengado >= query.result.interes_devengado)
      ]_vars

\* the leg types every indicator computation of CalculaEstado has a branch for
BranchTypes == {"FXFWD"} \cup FixedRateTypes \cup CompIndexTypes

\* C21: CalculaEstado fails, and returns no Estado, for every leg whose type
\* has no branch in one of its indicator computations; no indicator of such a
\* leg is filled with a default value.
C21_UnsupportedTypeFails ==
    (query.op = "calcula_estado" /\ query.leg.type_of_leg \notin BranchTypes) =>
        ~query.result.ok

----------------------------------------------------------------------------
(* GetFixingForLeg and GetRegulatoryCashflowForLeg (src/pyqcf/not_yet.py) *)

\* a coupon as the fixing and the regulatory code see it: the coupon, the date
\* its rate is fixed, and the index values a fixing sets (<<>> while unset)
FixingCashflow(start_date, end_date, nominal, amortization, rate) ==
    [start_date |-> start_date, end_date |-> end_date, settlement_date |-> end_date,
     fixing_date |-> start_date, nominal |-> nominal, amortization |-> amortization,
     rate |-> rate, start_date_icp |-> <<>>, end_date_icp |-> <<>>,
     start_date_uf |-> <<>>, end_date_uf |-> <<>>]

\* config.interest_rate_index_aliases.get(code, code)
interest_rate_index_aliases ==
    [c \in {"TAB_90_UF", "TAB_180_UF", "TAB_360_UF", "TAB_30_CLP", "TAB_90_CLP",
            "TAB_180_CLP", "TAB_360_CLP"} |->
        CASE c = "TAB_90_UF" -> "TAB-90-UF"
          [] c = "TAB_180_UF" -> "TAB-180-UF"
          [] c = "TAB_360_UF" -> "TAB-360-UF"
          [] c = "TAB_30_CLP" -> "TAB-30-CLP"
          [] c = "TAB_90_CLP" -> "TAB-90-CLP"
          [] c = "TAB_180_CLP" -> "TAB-180-CLP"
          [] OTHER -> "TAB-360-CLP"]
Alias(code) ==
    IF code \in DOMAIN interest_rate_index_aliases THEN interest_rate_index_aliases[code]
    ELSE code

\* OperationLeg of the regulatory generator: deal, direction, type, notional
\* currency, the code of the rate index of its coupons, and the coupons of
\* qcf_leg in order; a forward has one cashflow, paid at its end date
RegLeg(type, currency, index_code) ==
    [deal_number |-> "D1", a_p |-> "A", type_of_leg |-> type,
     nominal_currency |-> currency, index_code |-> index_code,
     cashflows |-> IF type = "FXFWD"
                   THEN <<FixingCashflow(1, 4, 100, 100, 0)>>
                   ELSE <<FixingCashflow(1, 2, 100, 20, 2),
                          FixingCashflow(2, 4, 80, 30, 2),
                          FixingCashflow(4, 6, 50, 50, 2)>>]

RegLegs ==
    { RegLeg(t[1], t[2], t[3]) :
        t \in {<<"FXFWD", "USD", "">>, <<"FIXED_RATE", "CLP", "">>,
               <<"FIXED_RATE", "USD", "">>, <<"ICPCLP", "CLP", "ICPCLP">>,
               <<"ICPCLF", "CLF", "ICPCLP">>, <<"SOFRINDX", "USD", "SOFRINDX">>,
               <<"FLOATING_RATE", "CLP", "TAB_90_CLP">>,
               <<"FLOATING_RATE", "USD", "TERMSOFR3M">>,
               <<"FLOATING_RATE", "USD", "LIBORUSD3M">>,
               <<"SOFRRATE", "USD", "SOFRRATE">>} }

\* the coupons of a leg a fixing may pick: the first one of `hits`
FirstOf(hits) == CHOOSE i \in hits : \A j \in hits : i <= j

\* GetFixingForLeg.fix_icpclp_leg: the first coupon with
\* start_date <= process_date <= end_date gets its start index value, and its
\* end index value when process_date is its end date; then the loop returns
FixIcpclpLeg(hist, process_date, leg, index_code) ==
    LET hits == {i \in 1..Len(leg.cashflows) :
                    /\ leg.cashflows[i].start_date <= process_date
                    /\ process_date <= leg.cashflows[i].end_date}
        i == FirstOf(hits)
        cashflow == leg.cashflows[i]
        started == [cashflow EXCEPT !.start_date_icp =
                       <<GetIndexValue(hist, cashflow.start_date, index_code).value>>]
        ended == IF process_date = cashflow.end_date
                 THEN [started EXCEPT !.end_date_icp =
                          <<GetIndexValue(hist, cashflow.end_date, index_code).value>>]
                 ELSE started
    IN IF hits = {} THEN leg ELSE [leg EXCEPT !.cashflows[i] = ended]

\* GetFixingForLeg.fix_icpclf_leg: the first coupon with
\* start_date <= process_date < end_date gets its start values of ICPCLP and
\* UF; its end values are set under process_date == end_date
FixIcpclfLeg(hist, process_date, leg) ==
    LET hits == {i \in 1..Len(leg.cashflows) :
                    /\ leg.cashflows[i].start_date <= process_date
                    /\ process_date < leg.cashflows[i].end_date}
        i == FirstOf(hits)
        cashflow == leg.cashflows[i]
        started == [cashflow EXCEPT
                      !.start_date_icp =
                          <<GetIndexValue(hist, cashflow.start_date, "ICPCLP").value>>,
                      !.start_date_uf =
                          <<GetIndexValue(hist, cashflow.start_date, "UF").value>>]
        ended == IF process_date = cashflow.end_date
                 THEN [started EXCEPT
                         !.end_date_icp =
                             <<GetIndexValue(hist, cashflow.end_date, "ICPCLP").value>>,
                         !.end_date_uf =
                             <<GetIndexValue(hist, cashflow.end_date, "UF").value>>]
                 ELSE started
    IN IF hits = {} THEN leg ELSE [leg EXCEPT !.cashflows[i] = ended]

\* GetFixingForLeg.fix_ibor_leg: every coupon whose fixing date is on or
\* before the process date gets the value of the index on its fixing date
FixIborLeg(hist, process_date, leg) ==
    [leg EXCEPT !.cashflows =
        [i \in 1..Len(leg.cashflows) |->
            LET cashflow == leg.cashflows[i]
            IN IF cashflow.fixing_date <= process_date
               THEN [cashflow EXCEPT !.rate =
                        GetIndexValue(hist, cashflow.fixing_date,
                                      Alias(leg.index_code)).value]
               ELSE cashflow]]

\* GetFixingForLeg.fix_compounded_overnight_rate_leg: returns the accrued
\* fixing of the coupon in progress and sets nothing on the leg
FixCompoundedOvernightRateLeg(hist, process_date, leg) == leg

\* leg.get_current_cashflow_and_index(process_date): the first coupon whose
\* window holds or follows the date, with its place in the leg; none when
\* every coupon has ended
GetCurrentCashflowAndIndex(leg, process_date) ==
    LET hits == {i \in 1..Len(leg.cashflows) : process_date < leg.cashflows[i].end_date}
    IN IF hits = {} THEN [found |-> FALSE, index |-> 0]
       ELSE [found |-> TRUE, index |-> FirstOf(hits)]

\* a row of the result: deal, direction, leg type, currency of the notional,
\* date, interest amount, amortization amount
RegRow(leg, which_date, interest, principal) ==
    [deal_number |-> leg.deal_number, a_p |-> leg.a_p, type_of_leg |-> leg.type_of_leg,
     currency |-> leg.nominal_currency, date |-> which_date,
     interest |-> interest, principal |-> principal]

\* GetRegulatoryCashflowForLeg.__zero_cashflow
ZeroCashflowOfNone(process_date, leg) == <<>>
ZeroCashflow(process_date, leg) == <<RegRow(leg, process_date, 0, 0)>>

\* range(index, size) over the rows of the coupons: the rows from place `from`
\* to the last one
RowsFrom(rows, from) ==
    [j \in 1..(Len(rows) - from + 1) |-> rows[from + j - 1]]

\* cashflow.interest(time_series) of an ibor coupon: the rate is the value of
\* the series on the fixing date, the coupon's own rate when it has none
IborInterest(cashflow, series) ==
    LET rate == IF cashflow.fixing_date \in DOMAIN series
                THEN series[cashflow.fixing_date] ELSE cashflow.rate
    IN cashflow.nominal * rate * (cashflow.end_date - cashflow.start_date)

\* cashflow.accrued_interest(date, time_series) of a compounded overnight rate
\* coupon: the rates of the series over the days from the start to the date
RECURSIVE SumRates(_, _, _)
SumRates(series, from, to) ==
    IF from >= to THEN 0
    ELSE (IF from \in DOMAIN series THEN series[from] ELSE 0) + SumRates(series, from + 1, to)
AccruedOvernightRate(cashflow, which_date, series) ==
    cashflow.nominal * SumRates(series, cashflow.start_date, which_date)

\* cashflow.accrued_interest(date, icp, uf) of an ICPCLF coupon, from the
\* start values its fixing has set: the growth of ICP less the growth of UF
\* since the start; a coupon whose start values are unset has accrued nothing
FixedValue(field, unset) == IF field = <<>> THEN unset ELSE field[1]
AccruedIcpClf(cashflow, icp, uf) ==
    cashflow.nominal * ((icp - FixedValue(cashflow.start_date_icp, icp))
                          - (uf - FixedValue(cashflow.start_date_uf, uf)))

\* GetRegulatoryCashflowForLeg.__generic_overnight_index
GenericOvernightIndex(hist, process_date, leg, overnight_index_code) ==
    LET result == GetCurrentCashflowAndIndex(leg, process_date)
        cashflow == leg.cashflows[result.index]
        row(c) == RegRow(leg, c.end_date,
                      AmountToClp(hist, Interest(c), leg.nominal_currency, process_date),
                      0)
        head == RegRow(leg, process_date + 1,
                    AmountToClp(hist,
                                AccruedInterestIndex(cashflow, process_date,
                                                     hist[overnight_index_code]),
                                leg.nominal_currency, process_date),
                    AmountToClp(hist, cashflow.nominal, leg.nominal_currency,
                                process_date))
        ok == ~result.found \/ overnight_index_code \in DOMAIN hist
    IN [ok |-> ok,
        rows |-> IF ~ok THEN <<>>
                 ELSE IF ~result.found THEN ZeroCashflow(process_date, leg)
                 ELSE <<head>> \o RowsFrom([i \in 1..Len(leg.cashflows) |-> row(leg.cashflows[i])],
                                      result.index),
        leg |-> IF ~result.found THEN leg
                ELSE FixIcpclpLeg(hist, process_date, leg, overnight_index_code)]

\* GetRegulatoryCashflowForLeg.case_fixed_leg
CaseFixedLeg(hist, process_date, leg) ==
    LET result == GetCurrentCashflowAndIndex(leg, process_date)
        row(c) == RegRow(leg, c.settlement_date,
                      AmountToClp(hist, Interest(c), leg.nominal_currency, process_date),
                      AmountToClp(hist, c.amortization, leg.nominal_currency,
                                  process_date))
    IN [ok |-> TRUE,
        rows |-> IF ~result.found THEN ZeroCashflow(process_date, leg)
                 ELSE RowsFrom([i \in 1..Len(leg.cashflows) |-> row(leg.cashflows[i])],
                                      result.index),
        leg |-> leg]

\* GetRegulatoryCashflowForLeg.case_fwd_leg
CaseFwdLeg(hist, process_date, leg) ==
    LET result == GetCurrentCashflowAndIndex(leg, process_date)
        cashflow == leg.cashflows[result.index]
    IN [ok |-> TRUE,
        rows |-> IF ~result.found THEN ZeroCashflow(process_date, leg)
                 ELSE <<RegRow(leg, cashflow.end_date, 0,
                            AmountToClp(hist, cashflow.nominal, leg.nominal_currency,
                                        process_date))>>,
        leg |-> leg]

\* GetRegulatoryCashflowForLeg.case_icp_clf_leg
CaseIcpClfLeg(hist, process_date, leg) ==
    LET fixed == FixIcpclfLeg(hist, process_date, leg)
        result == GetCurrentCashflowAndIndex(fixed, process_date)
        cashflow == fixed.cashflows[result.index]
        icp == GetIndexValue(hist, process_date, "ICPCLP").value
        uf == GetIndexValue(hist, process_date, "UF").value
    IN [ok |-> TRUE,
        rows |-> IF ~result.found THEN ZeroCashflow(process_date, leg)
                 ELSE <<RegRow(leg, process_date,
                            AmountToClp(hist, AccruedIcpClf(cashflow, icp, uf),
                                        leg.nominal_currency, process_date),
                            AmountToClp(hist, cashflow.nominal, leg.nominal_currency,
                                        process_date))>>,
        leg |-> fixed]

\* the rows of case_ibor_leg and case_sofrrate_leg: the coupons after the
\* current one with their interest as it is and no amortization, and before
\* them the current coupon with its interest and its nominal in CLP
FloatingRows(hist, process_date, leg, current_interest) ==
    LET result == GetCurrentCashflowAndIndex(leg, process_date)
        cashflow == leg.cashflows[result.index]
        row(c) == RegRow(leg, c.end_date, Interest(c), 0)
        head == RegRow(leg, cashflow.end_date,
                       AmountToClp(hist, current_interest, leg.nominal_currency,
                                   process_date),
                       AmountToClp(hist, cashflow.nominal, leg.nominal_currency,
                                   process_date))
    IN IF ~result.found THEN ZeroCashflow(process_date, leg)
       ELSE <<head>> \o RowsFrom([i \in 1..Len(leg.cashflows) |-> row(leg.cashflows[i])],
                                      result.index + 1)

\* GetRegulatoryCashflowForLeg.case_ibor_leg
CaseIborLeg(hist, process_date, leg) ==
    LET result == GetCurrentCashflowAndIndex(leg, process_date)
        cashflow == leg.cashflows[result.index]
        code == Alias(leg.index_code)
        ok == ~result.found \/ code \in DOMAIN hist
    IN [ok |-> ok,
        rows |-> IF ~ok THEN <<>>
                 ELSE FloatingRows(hist, process_date, leg,
                                   IborInterest(cashflow, hist[code])),
        leg |-> IF ~result.found THEN leg ELSE FixIborLeg(hist, process_date, leg)]

\* GetRegulatoryCashflowForLeg.case_sofrrate_leg
CaseSofrrateLeg(hist, process_date, leg) ==
    LET result == GetCurrentCashflowAndIndex(leg, process_date)
        cashflow == leg.cashflows[result.index]
        code == Alias("SOFRRATE")
        ok == ~result.found \/ code \in DOMAIN hist
    IN [ok |-> ok,
        rows |-> IF ~ok THEN <<>>
                 ELSE FloatingRows(hist, process_date, leg,
                                   AccruedOvernightRate(cashflow, process_date, hist[code])),
        leg |-> IF ~result.found THEN leg
                ELSE FixCompoundedOvernightRateLeg(hist, process_date, leg)]

\* GetRegulatoryCashflowForLeg.__call__: the rows of the leg and the leg as
\* the fixings of the call leave it; ok = FALSE when the call raised, the
\* series of the leg's index not being in the snapshot
GetRegulatoryCashflowForLeg(hist, process_date, leg) ==
    CASE leg.type_of_leg = "FXFWD" -> CaseFwdLeg(hist, process_date, leg)
      [] leg.type_of_leg = "FIXED_RATE" -> CaseFixedLeg(hist, process_date, leg)
      [] leg.type_of_leg = "ICPCLP" -> GenericOvernightIndex(hist, process_date, leg, "ICPCLP")
      [] leg.type_of_leg = "ICPCLF" -> CaseIcpClfLeg(hist, process_date, leg)
      [] leg.type_of_leg = "FLOATING_RATE" -> CaseIborLeg(hist, process_date, leg)
      [] leg.type_of_leg = "SOFRINDX" ->
            GenericOvernightIndex(hist, process_date, leg, "SOFRINDX")
      [] leg.type_of_leg = "SOFRRATE" -> CaseSofrrateLeg(hist, process_date, leg)

\* the series of the snapshot of a regulatory run: the rate and index series
\* are complete, the dollar is complete or has no value on the dates of `gap`
RegHistories ==
    { Historic([c \in {"1CLP", "UF", "USDCLP_RC", "ICPCLP", "SOFRINDX", "SOFRRATE",
                       "TAB-90-CLP", "TERMSOFR3M"} |->
                  CASE c = "1CLP" -> ConstSeries(EstadoDates, 1)
                    [] c = "UF" -> Series(EstadoDates, 38000)
                    [] c = "USDCLP_RC" -> Series(EstadoDates \ gap, 900)
                    [] c = "ICPCLP" -> [d \in EstadoDates |-> 20000 + 2 * d]
                    [] c = "SOFRINDX" -> Series(EstadoDates, 100)
                    [] OTHER -> Series(EstadoDates, 3)]) :
        gap \in {{}, {3}} }

get_regulatory_cashflow(process_date, leg) ==
    /\ query' = [op |-> "get_regulatory_cashflow", date |-> process_date, leg |-> leg,
                 result |-> GetRegulatoryCashflowForLeg(historic_index_values,
                                                        process_date, leg)]
    /\ UNCHANGED <<zero_coupon_curves, curve_scenario, fx_rate_index_values, fx_scenario,
                   constructed, last, historic_index_values, valuer, portfolio>>

InitRegulatory ==
    /\ zero_coupon_curves \in ValStores
    /\ curve_scenario = InitScenario(zero_coupon_curves)
    /\ fx_rate_index_values = ValFx
    /\ fx_scenario = InitFxScenario(fx_rate_index_values)
    /\ constructed = [curves |-> zero_coupon_curves, fx |-> fx_rate_index_values]
    /\ last = NoCall
    /\ historic_index_values \in RegHistories
    /\ valuer = DefaultValuer
    /\ portfolio = NoLegs
    /\ query = NoQuery

NextRegulatory ==
    \E process_date \in EstadoDates, leg \in RegLegs :
        get_regulatory_cashflow(process_date, leg)

SpecRegulatory == InitRegulatory /\ [][NextRegulatory]_vars

\* C22: the regulatory generator never returns an empty list: when no coupon
\* of the leg holds or follows the process date it returns exactly the one row
\* (deal, direction, leg type, currency, process date, 0.0, 0.0), and
\* otherwise it returns at least one row.
C22_NeverEmpty ==
    (query.op = "get_regulatory_cashflow" /\ query.result.ok) =>
        /\ Len(query.result.rows) >= 1
        /\ (\A i \in 1..Len(query.leg.cashflows) :
                query.leg.cashflows[i].end_date <= query.date)
             => query.result.rows =
                   <<[deal_number |-> query.leg.deal_number, a_p |-> query.leg.a_p,
                      type_of_leg |-> query.leg.type_of_leg,
                      currency |-> query.leg.nominal_currency,
                      date |-> query.date, interest |-> 0, principal |-> 0]>>

C22_Witness ==
    /\ query.op = "get_regulatory_cashflow"
    /\ query.result.ok
    /\ \A i \in 1..Len(query.leg.cashflows) : query.leg.cashflows[i].end_date <= query.date
    /\ Len(query.leg.cashflows) = 3
    /\ Len(query.result.rows) = 1
    /\ query.result.rows[1].date = query.date

\* the rows the claim names for a leg whose coupon in progress is at place k:
\* one row of the current period first, then one row for each later coupon
OneRowPerCashflow(q, k) ==
    LET n == Len(q.leg.cashflows)
        rows == q.result.rows
    IN /\ Len(rows) = 1 + (n - k)
       /\ rows[1].principal = AmountToClp(historic_index_values, q.leg.cashflows[k].nominal,
                                          q.leg.nominal_currency, q.date)
       /\ \A j \in 1..(n - k) :
             rows[1 + j].date \in {q.leg.cashflows[k + j].end_date,
                                   q.leg.cashflows[k + j].settlement_date}

\* C23: when a leg of n coupons has its coupon in progress at place k, the
\* regulatory result is exactly one current-period row (accrued-to-date
\* interest and the coupon's notional) placed first, followed by exactly one
\* row for each later coupon; no coupon gives two rows and no remaining coupon
\* is left out, for every leg type of the dispatch table.
C23_OneRowPerCashflow ==
    (/\ query.op = "get_regulatory_cashflow"
     /\ query.result.ok
     /\ InProgress(query.leg, query.date) # {}) =>
        OneRowPerCashflow(query, FirstOf(InProgress(query.leg, query.date)))

\* the amounts in the notional currency a row may carry
MaxAmount == 1000
Amounts == (0 - MaxAmount)..MaxAmount

\* an amount is expressed in the reporting currency: it is an amount in the
\* currency of the notional, converted with the FX index of that currency
Converted(q, value) ==
    \E amount \in Amounts :
        value = AmountToClp(historic_index_values, amount, q.leg.nominal_currency, q.date)

\* C24: in every row the regulatory generator returns, for every leg type and
\* notional currency, the interest amount and the principal amount are in the
\* reporting currency: each is the amount in the notional currency converted
\* with the FX conversion of the leg's notional currency.
C24_RowsInReportingCurrency ==
    (query.op = "get_regulatory_cashflow" /\ query.result.ok) =>
        \A i \in 1..Len(query.result.rows) :
            /\ Converted(query, query.result.rows[i].interest)
            /\ Converted(query, query.result.rows[i].principal)

----------------------------------------------------------------------------
(* Batch runs (src/pyqcf/portfolio_actions.py, src/pyqcf/settlements.py) *)

\* the legs of a list of operations, in the order the two loops visit them
RECURSIVE AllLegs(_)
AllLegs(operations) ==
    IF operations = <<>> THEN <<>>
    ELSE Head(operations).legs \o AllLegs(Tail(operations))

\* result += get_reg(process_date, leg) over the legs: the rows of the legs
\* up to place i, one after the other
RECURSIVE RowsOfLegs(_, _, _, _)
RowsOfLegs(hist, process_date, legs, i) ==
    IF i = 0 THEN <<>>
    ELSE RowsOfLegs(hist, process_date, legs, i - 1)
            \o GetRegulatoryCashflowForLeg(hist, process_date, legs[i]).rows

\* get_regulatory_cashflows: the rows of every leg of every operation; a leg
\* that raises ends the call, which then returns nothing
GetRegulatoryCashflows(hist, process_date, operations) ==
    LET legs == AllLegs(operations)
        raised == \E i \in 1..Len(legs) :
                     ~GetRegulatoryCashflowForLeg(hist, process_date, legs[i]).ok
    IN IF raised THEN [ok |-> FALSE, rows |-> <<>>]
       ELSE [ok |-> TRUE, rows |-> RowsOfLegs(hist, process_date, legs, Len(legs))]

\* an operation of a batch: its deal number and its legs
Operation(deal_number, legs) ==
    [deal_number |-> deal_number,
     legs |-> [i \in 1..Len(legs) |-> [legs[i] EXCEPT !.deal_number = deal_number]]]

\* the legs a regulatory batch is made of: a fixed leg, a floating leg whose
\* index has its series in the snapshot and one whose index has none
BatchLegs ==
    {RegLeg("FIXED_RATE", "USD", ""), RegLeg("FLOATING_RATE", "USD", "TERMSOFR3M"),
     RegLeg("FLOATING_RATE", "USD", "LIBORUSD3M")}

\* the batches: two operations, of two legs and of one leg
Batches ==
    { <<Operation("D1", <<a, b>>), Operation("D2", <<c>>)>> :
        a \in BatchLegs, b \in BatchLegs, c \in BatchLegs }

get_regulatory_cashflows(process_date, operations) ==
    /\ query' = [op |-> "get_regulatory_cashflows", date |-> process_date,
                 operations |-> operations,
                 result |-> GetRegulatoryCashflows(historic_index_values, process_date,
                                                   operations)]
    /\ UNCHANGED <<zero_coupon_curves, curve_scenario, fx_rate_index_values, fx_scenario,
                   constructed, last, historic_index_values, valuer, portfolio>>

\* LegModel.get_current_cashflow: the first coupon with
\* start_date <= fecha < end_date; the [0] raises IndexError when there is none
GetCurrentCashflowOfLegModel(leg, fecha) ==
    LET hits == {i \in 1..Len(leg.cashflows) :
                    /\ leg.cashflows[i].start_date <= fecha
                    /\ fecha < leg.cashflows[i].end_date}
    IN IF hits = {} THEN Raised ELSE Returned(leg.cashflows[FirstOf(hits)])

\* the try block of get_settlements over the legs of one operation from place
\* i on: the numbers of the legs whose current coupon ends on or before the
\* settlement date, gathered until a leg raises IndexError
RECURSIVE SettleLoop(_, _, _, _, _)
SettleLoop(legs, i, process_date, settlement_date, found) ==
    IF i > Len(legs) THEN [legs |-> found, bad |-> FALSE]
    ELSE LET cashflow == GetCurrentCashflowOfLegModel(legs[i], process_date)
         IN IF ~cashflow.ok THEN [legs |-> found, bad |-> TRUE]
            ELSE SettleLoop(legs, i + 1, process_date, settlement_date,
                            IF cashflow.value.end_date <= settlement_date
                            THEN found \cup {legs[i].leg_number} ELSE found)

\* SettlingOperation(deal_number, leg_numbers): leg_numbers is a
\* set[PositiveInt], so a leg number below 1 fails the validation
SettlingOperation(deal_number, leg_numbers) ==
    IF \E n \in leg_numbers : n < 1 THEN Raised
    ELSE Returned([deal_number |-> deal_number, leg_numbers |-> leg_numbers])

\* get_settlements: the operations with a settling leg and the operations
\* where a leg raised, each in the order of the portfolio; ok = FALSE when the
\* call itself raised
GetSettlements(process_date, settlement_date, swaps) ==
    LET seen == [k \in 1..Len(swaps) |->
                    LET loop == SettleLoop(swaps[k].legs, 1, process_date,
                                           settlement_date, {})
                    IN [deal_number |-> swaps[k].deal_number, legs |-> loop.legs,
                        bad |-> loop.bad,
                        operation |-> SettlingOperation(swaps[k].deal_number, loop.legs)]]
        Settling(s) == s.legs # {}
        Bad(s) == s.bad
        settling == SelectSeq(seen, Settling)
        bad == SelectSeq(seen, Bad)
    IN IF \E k \in 1..Len(settling) : ~settling[k].operation.ok
       THEN [ok |-> FALSE, settling |-> <<>>, bad |-> <<>>]
       ELSE [ok |-> TRUE,
             settling |-> [k \in 1..Len(settling) |-> settling[k].operation.value],
             bad |-> [k \in 1..Len(bad) |-> [deal_number |-> bad[k].deal_number]]]

\* a leg of a swap of the portfolio: its number and its coupons
SwapLeg(leg_number, cashflows) == [leg_number |-> leg_number, cashflows |-> cashflows]

\* the coupon schedules of the portfolio: three coupons to date 6, or one
\* coupon that ends at date 4
Schedules ==
    {<<FixingCashflow(1, 2, 100, 20, 2), FixingCashflow(2, 4, 80, 30, 2),
       FixingCashflow(4, 6, 50, 50, 2)>>,
     <<FixingCashflow(1, 4, 100, 100, 2)>>}

\* the portfolios: a swap of two legs and a swap of one leg, the legs of a
\* swap numbered from 1 in their order
Portfolios ==
    { <<[deal_number |-> "D1", legs |-> <<SwapLeg(1, a), SwapLeg(2, b)>>],
        [deal_number |-> "D2", legs |-> <<SwapLeg(1, c)>>]>> :
        a \in Schedules, b \in Schedules, c \in Schedules }

get_settlements(process_date, settlement_date, swaps) ==
    /\ query' = [op |-> "get_settlements", date |-> process_date,
                 settlement_date |-> settlement_date, swaps |-> swaps,
                 result |-> GetSettlements(process_date, settlement_date, swaps)]
    /\ UNCHANGED <<zero_coupon_curves, curve_scenario, fx_rate_index_values, fx_scenario,
                   constructed, last, historic_index_values, valuer, portfolio>>

\* the dates of the batch runs, and the days from the process date to the
\* settlement date
BatchDates == {d \in EstadoDates : d >= 1 /\ d <= 5}
MaxSettlementLag == 2

InitBatch ==
    /\ zero_coupon_curves \in ValStores
    /\ curve_scenario = InitScenario(zero_coupon_curves)
    /\ fx_rate_index_values = ValFx
    /\ fx_scenario = InitFxScenario(fx_rate_index_values)
    /\ constructed = [curves |-> zero_coupon_curves, fx |-> fx_rate_index_values]
    /\ last = NoCall
    /\ historic_index_values \in RegHistories
    /\ valuer = DefaultValuer
    /\ portfolio = NoLegs
    /\ query = NoQuery

NextBatch ==
    \/ \E process_date \in BatchDates, operations \in Batches :
          get_regulatory_cashflows(process_date, operations)
    \/ \E process_date \in BatchDates, lag \in 0..MaxSettlementLag, swaps \in Portfolios :
          get_settlements(process_date, process_date + lag, swaps)

SpecBatch == InitBatch /\ [][NextBatch]_vars

\* the legs of a batch that do not fail when they are run alone
GoodLegs(q) ==
    {i \in 1..Len(AllLegs(q.operations)) :
        GetRegulatoryCashflowForLeg(historic_index_values, q.date,
                                    AllLegs(q.operations)[i]).ok}

\* C25: in a batch run over several operations and legs, a leg that fails does
\* not keep the other legs from being processed: the batch still returns the
\* results of every leg that does not fail, with a record of the deal/leg
\* pairs that failed.
C25_BatchIsolatesFailures ==
    query.op = "get_regulatory_cashflows" =>
        /\ query.result.ok
        /\ \A i \in GoodLegs(query) :
              LET rows == GetRegulatoryCashflowForLeg(historic_index_values, query.date,
                                                      AllLegs(query.operations)[i]).rows
              IN \A k \in 1..Len(rows) :
                    \E j \in 1..Len(query.result.rows) : query.result.rows[j] = rows[k]

----------------------------------------------------------------------------
(* Fixings (src/pyqcf/fixings.py, GetFixingForLeg of src/pyqcf/not_yet.py) *)

\* fixings.index_alias.get(code, code)
index_alias == [c \in {"INDICE SOFR"} |-> "SOFRINDX"]
IndexAlias(code) == IF code \in DOMAIN index_alias THEN index_alias[code] ELSE code

\* a coupon with its type (cashflow.get_type()) and the code of its index
IndexCashflow(cashflow, type, index_code) ==
    [type |-> type, start_date |-> cashflow.start_date, end_date |-> cashflow.end_date,
     settlement_date |-> cashflow.settlement_date, fixing_date |-> cashflow.fixing_date,
     nominal |-> cashflow.nominal, amortization |-> cashflow.amortization,
     rate |-> cashflow.rate, start_date_icp |-> cashflow.start_date_icp,
     end_date_icp |-> cashflow.end_date_icp, start_date_uf |-> cashflow.start_date_uf,
     end_date_uf |-> cashflow.end_date_uf, index_code |-> index_code]

\* fixings.fix_overnight_index_cashflow: the index on the start date and on
\* the end date of the coupon
FixOvernightIndexCashflow(hist, cashflow) ==
    LET index_name == IndexAlias(cashflow.index_code)
    IN [cashflow EXCEPT
          !.start_date_icp = <<GetIndexValue(hist, cashflow.start_date, index_name).value>>,
          !.end_date_icp = <<GetIndexValue(hist, cashflow.end_date, index_name).value>>]

\* fixings.fix_icp_clf_cashflow: ICPCLP and UF on the start date and on the
\* end date of the coupon
FixIcpClfCashflow(hist, cashflow) ==
    [cashflow EXCEPT
       !.start_date_icp = <<GetIndexValue(hist, cashflow.start_date, "ICPCLP").value>>,
       !.end_date_icp = <<GetIndexValue(hist, cashflow.end_date, "ICPCLP").value>>,
       !.start_date_uf = <<GetIndexValue(hist, cashflow.start_date, "UF").value>>,
       !.end_date_uf = <<GetIndexValue(hist, cashflow.end_date, "UF").value>>]

\* fixings.fix_cashflow, for the types of coupon modelled
FixCashflow(hist, cashflow) ==
    CASE cashflow.type = "FixedRateCashflow" -> cashflow
      [] cashflow.type = "OvernightIndexCashflow" -> FixOvernightIndexCashflow(hist, cashflow)
      [] cashflow.type = "IcpClfCashflow" -> FixIcpClfCashflow(hist, cashflow)

\* the coupons fix_cashflow is given: a coupon of a leg, at a fixed rate, of
\* an overnight index or of ICP/CLF
FixingCoupons ==
    { IndexCashflow(RegLeg("ICPCLP", "CLP", "ICPCLP").cashflows[i], t[1], t[2]) :
        i \in 1..3,
        t \in {<<"FixedRateCashflow", "">>, <<"OvernightIndexCashflow", "ICPCLP">>,
               <<"OvernightIndexCashflow", "INDICE SOFR">>, <<"IcpClfCashflow", "ICPCLP">>} }

\* the legs GetFixingForLeg is given
FixingLegs ==
    {leg \in RegLegs : leg.type_of_leg \in {"ICPCLP", "SOFRINDX", "ICPCLF", "FLOATING_RATE"}}

\* GetFixingForLeg by the type of the leg, as the callers of not_yet.py
\* dispatch it
FixLeg(hist, process_date, leg) ==
    CASE leg.type_of_leg \in {"ICPCLP", "SOFRINDX"} ->
            FixIcpclpLeg(hist, process_date, leg, leg.type_of_leg)
      [] leg.type_of_leg = "ICPCLF" -> FixIcpclfLeg(hist, process_date, leg)
      [] OTHER -> FixIborLeg(hist, process_date, leg)

\* a call of fix_icpclp_leg, fix_icpclf_leg or fix_ibor_leg on a leg
fix_leg(process_date, leg) ==
    /\ query' = [op |-> "fix_leg", date |-> process_date,
                 before |-> leg.cashflows,
                 result |-> FixLeg(historic_index_values, process_date, leg).cashflows,
                 type_of_leg |-> leg.type_of_leg]
    /\ UNCHANGED <<zero_coupon_curves, curve_scenario, fx_rate_index_values, fx_scenario,
                   constructed, last, historic_index_values, valuer, portfolio>>

\* a call of fix_cashflow on a coupon, at the process date of the snapshot
fix_cashflow(process_date, cashflow) ==
    /\ query' = [op |-> "fix_cashflow", date |-> process_date,
                 before |-> <<cashflow>>,
                 result |-> <<FixCashflow(historic_index_values, cashflow)>>,
                 type_of_leg |-> CASE cashflow.type = "FixedRateCashflow" -> "FIXED_RATE"
                                   [] cashflow.type = "IcpClfCashflow" -> "ICPCLF"
                                   [] OTHER -> "ICPCLP"]
    /\ UNCHANGED <<zero_coupon_curves, curve_scenario, fx_rate_index_values, fx_scenario,
                   constructed, last, historic_index_values, valuer, portfolio>>

InitFixing ==
    /\ zero_coupon_curves \in ValStores
    /\ curve_scenario = InitScenario(zero_coupon_curves)
    /\ fx_rate_index_values = ValFx
    /\ fx_scenario = InitFxScenario(fx_rate_index_values)
    /\ constructed = [curves |-> zero_coupon_curves, fx |-> fx_rate_index_values]
    /\ last = NoCall
    /\ historic_index_values \in RegHistories
    /\ valuer = DefaultValuer
    /\ portfolio = NoLegs
    /\ query = NoQuery

NextFixing ==
    \/ \E process_date \in EstadoDates, leg \in FixingLegs : fix_leg(process_date, leg)
    \/ \E process_date \in EstadoDates, cashflow \in FixingCoupons :
          fix_cashflow(process_date, cashflow)

SpecFixing == InitFixing /\ [][NextFixing]_vars

\* the index the start and end values of a coupon are read from
FixingIndex(q, cashflow) ==
    IF q.op = "fix_cashflow" /\ cashflow.type = "OvernightIndexCashflow"
    THEN IndexAlias(cashflow.index_code)
    ELSE IF q.type_of_leg = "SOFRINDX" THEN "SOFRINDX" ELSE "ICPCLP"

\* a fixed coupon has its start values from its start date, and has its end
\* values exactly when it has matured as of the process date
FixedAsOf(q, cashflow) ==
    LET matured == q.date >= cashflow.end_date
    IN /\ cashflow.start_date_icp =
             <<OnDate(historic_index_values, cashflow.start_date, FixingIndex(q, cashflow))>>
       /\ (cashflow.end_date_icp # <<>>) = matured
       /\ q.type_of_leg = "ICPCLF" =>
             /\ cashflow.start_date_uf =
                   <<OnDate(historic_index_values, cashflow.start_date, "UF")>>
             /\ (cashflow.end_date_uf # <<>>) = matured

\* C26: fixing an overnight-index or ICP/CLF coupon sets its start-date index
\* values (ICP, and UF for ICP/CLF) from the coupon's start date, and sets its
\* end-date index values if and only if the coupon has matured as of the
\* process date; an unmatured coupon's end-date fields are left unset.
C26_EndFixedIffMatured ==
    (/\ query.op \in {"fix_leg", "fix_cashflow"}
     /\ query.type_of_leg \in {"ICPCLP", "SOFRINDX", "ICPCLF"}) =>
        \A i \in 1..Len(query.result) :
            query.result[i] # query.before[i] => FixedAsOf(query, query.result[i])

----------------------------------------------------------------------------
(* Valuation, leg state and regulatory rows over one shared snapshot
   (GetPresentValueForLeg, CalculaEstado and GetRegulatoryCashflowForLeg of
   src/pyqcf/not_yet.py) *)

\* a leg with the fields the three calls read
SharedLeg(type, currency, index_code) ==
    [deal_number |-> "D1", a_p |-> "A", type_of_leg |-> type,
     nominal_currency |-> currency, index_code |-> index_code,
     counterparty |-> "97006000-6", interest_rate_index |-> IndexOfType(type),
     start_date |-> 0,
     cashflows |-> RegLeg(type, currency, index_code).cashflows]

SharedLegs ==
    {SharedLeg("FIXED_RATE", "USD", ""), SharedLeg("ICPCLP", "CLP", "ICPCLP"),
     SharedLeg("ICPCLF", "CLF", "ICPCLP"), SharedLeg("FLOATING_RATE", "USD", "TERMSOFR3M")}

\* the leg after the get_fixing.fix_* call a valuation of its type makes
LegAfterValuation(hist, process_date, leg) ==
    CASE leg.type_of_leg \in {"ICPCLP", "SOFRINDX"} ->
            FixIcpclpLeg(hist, process_date, leg, leg.interest_rate_index)
      [] leg.type_of_leg = "ICPCLF" -> FixIcpclfLeg(hist, process_date, leg)
      [] leg.type_of_leg = "FLOATING_RATE" -> FixIborLeg(hist, process_date, leg)
      [] OTHER -> leg

\* the leg after CalculaEstado.__call__: on a compounded-index leg every
\* coupon that has started gets its start value, and its end value when the
\* process date is on or after its end date
LegAfterEstado(hist, process_date, leg) ==
    IF leg.type_of_leg \notin CompIndexTypes THEN leg
    ELSE [leg EXCEPT !.cashflows =
            [i \in 1..Len(leg.cashflows) |->
                LET cashflow == leg.cashflows[i]
                    index_data == IndexData(hist, leg)
                IN IF process_date < cashflow.start_date THEN cashflow
                   ELSE IF process_date >= cashflow.end_date
                        THEN [cashflow EXCEPT
                                !.start_date_icp = <<index_data[cashflow.start_date]>>,
                                !.end_date_icp = <<index_data[cashflow.end_date]>>]
                        ELSE [cashflow EXCEPT
                                !.start_date_icp = <<index_data[cashflow.start_date]>>]]]

\* a call writes on the leg it is given, and on no other leg of the portfolio
WritesEveryLeg(held, i, leg) ==
    [j \in DOMAIN held |-> [leg |-> leg, run |-> held[j].run \/ j = i]]
WritesLeg(held, i, leg) == [held EXCEPT ![i] = [leg |-> leg, run |-> TRUE]]

\* the three calls as functions of the snapshot and the leg
PresentValueOf(m, v, process_date, leg) == GetPresentValueForLeg(m, v, process_date, leg)
EstadoOf(hist, q, leg) == CalculaEstado(hist, q.data, q.valor_mercado, q.date, leg)
RegulatoryOf(hist, process_date, leg) ==
    LET result == GetRegulatoryCashflowForLeg(hist, process_date, leg)
    IN [ok |-> result.ok, rows |-> result.rows]

\* the batch driver values leg i of the portfolio
run_valuation(i, process_date) ==
    /\ query' = [op |-> "get_present_value_for_leg", i |-> i, date |-> process_date,
                 result |-> PresentValueOf(MarketNow, valuer, process_date,
                                           portfolio[i].leg)]
    /\ portfolio' = WritesLeg(portfolio, i,
                              LegAfterValuation(historic_index_values, process_date,
                                                portfolio[i].leg))
    /\ UNCHANGED <<zero_coupon_curves, curve_scenario, fx_rate_index_values, fx_scenario,
                   constructed, last, historic_index_values, valuer>>

\* the batch driver rebuilds the state of leg i of the portfolio
run_estado(i, process_date, data, valor_mercado) ==
    LET q == [op |-> "calcula_estado", i |-> i, date |-> process_date, data |-> data,
              valor_mercado |-> valor_mercado]
    IN /\ query' = [op |-> q.op, i |-> i, date |-> process_date, data |-> data,
                    valor_mercado |-> valor_mercado,
                    result |-> EstadoOf(historic_index_values, q, portfolio[i].leg)]
       /\ portfolio' = WritesLeg(portfolio, i,
                                 LegAfterEstado(historic_index_values, process_date,
                                                portfolio[i].leg))
       /\ UNCHANGED <<zero_coupon_curves, curve_scenario, fx_rate_index_values,
                      fx_scenario, constructed, last, historic_index_values, valuer>>

\* the batch driver lists the regulatory rows of leg i of the portfolio
run_regulatory(i, process_date) ==
    /\ query' = [op |-> "get_regulatory_cashflow", i |-> i, date |-> process_date,
                 result |-> RegulatoryOf(historic_index_values, process_date,
                                         portfolio[i].leg)]
    /\ portfolio' = WritesLeg(portfolio, i,
                              GetRegulatoryCashflowForLeg(historic_index_values,
                                                          process_date,
                                                          portfolio[i].leg).leg)
    /\ UNCHANGED <<zero_coupon_curves, curve_scenario, fx_rate_index_values, fx_scenario,
                   constructed, last, historic_index_values, valuer>>

\* the process dates of the shared runs
SharedDates == {d \in EstadoDates : d >= 1 /\ d <= 2}

InitShared ==
    /\ zero_coupon_curves \in ValStores
    /\ curve_scenario = InitScenario(zero_coupon_curves)
    /\ fx_rate_index_values = ValFx
    /\ fx_scenario = InitFxScenario(fx_rate_index_values)
    /\ historic_index_values \in RegHistories
    /\ valuer = DefaultValuer
    /\ portfolio \in {<<[leg |-> a, run |-> FALSE], [leg |-> b, run |-> FALSE]>> :
                        a \in SharedLegs, b \in SharedLegs}
    /\ constructed = [curves |-> zero_coupon_curves, fx |-> fx_rate_index_values,
                      hist |-> historic_index_values, legs |-> portfolio]
    /\ last = NoCall
    /\ query = NoQuery

NextShared ==
    \E i \in 1..2, process_date \in SharedDates :
        \/ run_valuation(i, process_date)
        \/ \E data \in ExternalData : run_estado(i, process_date, data, 12000)
        \/ run_regulatory(i, process_date)

SpecShared == InitShared /\ [][NextShared]_vars

\* the market snapshot as it was constructed
MarketConstructed ==
    Market(constructed.curves, InitScenario(constructed.curves), constructed.fx,
           InitFxScenario(constructed.fx), constructed.hist)

\* the result of a call run alone: on the snapshot as constructed and on the
\* leg as the portfolio was built with it
Alone(q) ==
    LET leg == constructed.legs[q.i].leg
    IN CASE q.op = "get_present_value_for_leg" ->
               PresentValueOf(MarketConstructed, valuer, q.date, leg)
         [] q.op = "calcula_estado" -> EstadoOf(constructed.hist, q, leg)
         [] OTHER -> RegulatoryOf(constructed.hist, q.date, leg)

Range(s) == {s[k] : k \in 1..Len(s)}

\* the coupons of a leg in progress at a date that end on or before a later one
SettlingCoupons(leg, process_date, settlement_date) ==
    {i \in InProgress(leg, process_date) :
        /\ leg.cashflows[i].end_date > process_date
        /\ leg.cashflows[i].end_date <= settlement_date}

\* the numbers of the legs of a swap with such a coupon
SettlingLegs(swap, process_date, settlement_date) ==
    {swap.legs[k].leg_number : k \in
        {k \in 1..Len(swap.legs) :
            SettlingCoupons(swap.legs[k], process_date, settlement_date) # {}}}

\* C28: get_settlements returns as settling operations exactly the deals
\* with at least one leg whose coupon in progress (start_date <= process_date
\* < end_date) ends after process_date and on or before settlement_date, each
\* with exactly the set of the numbers of such legs; every deal with a leg
\* that has no coupon in progress is in the second list, and no deal is in
\* both lists.
C28_SettlingOperations ==
    query.op = "get_settlements" =>
        LET q == query
            named == {[deal_number |-> q.swaps[k].deal_number,
                       leg_numbers |-> SettlingLegs(q.swaps[k], q.date, q.settlement_date)] :
                         k \in {k \in 1..Len(q.swaps) :
                                  SettlingLegs(q.swaps[k], q.date, q.settlement_date) # {}}}
        IN /\ q.result.ok
           /\ Range(q.result.settling) = named
           /\ \A k \in 1..Len(q.swaps) :
                 (\E j \in 1..Len(q.swaps[k].legs) :
                     InProgress(q.swaps[k].legs[j], q.date) = {})
                   => [deal_number |-> q.swaps[k].deal_number] \in Range(q.result.bad)
           /\ \A s \in Range(q.result.settling) :
                 [deal_number |-> s.deal_number] \notin Range(q.result.bad)

\* C29: GetFixingForLeg.fix_ibor_leg fixes only the current coupon: after the
\* call the rate value of every coupon other than the one in progress at the
\* process date is unchanged.
C29_OnlyCurrentCouponFixed ==
    (query.op = "fix_leg" /\ query.type_of_leg = "FLOATING_RATE") =>
        \A i \in 1..Len(query.before) :
            i \notin InProgress([cashflows |-> query.before], query.date)
               => query.result[i].rate = query.before[i].rate

\* ---------------------------------------------------------------------------
\* Storing a leg model and rebuilding it (operations.py custom_dump,
\* analytics_extra.py make_leg)
\* ---------------------------------------------------------------------------

\* operations.py TypeOfLeg: a StrEnum whose auto() values are the lower-cased
\* member names.
TypeOfLeg ==
    {"fixed_rate", "fixed_rate_mccy", "ibor", "ibor_mccy", "overnight_index",
     "overnight_index_mccy", "compounded_overnight_rate",
     "compounded_overnight_rate_mccy", "icp_clf"}

\* The periodicity fields of each leg generator class.
PeriodicityFields(type_of_leg) ==
    CASE type_of_leg \in {"fixed_rate", "fixed_rate_mccy"} -> {"periodicity"}
      [] type_of_leg \in {"ibor", "ibor_mccy"} ->
            {"settlement_periodicity", "fixing_periodicity"}
      [] OTHER -> {"settlement_periodicity"}

\* Largest number of years, months or days of a periodicity.
MaxTenor == 1

Tenors ==
    {Tenor(agnos, meses, dias) : agnos \in 0..MaxTenor, meses \in 0..MaxTenor,
                                 dias \in 0..MaxTenor}

\* A leg model: its type, its number and its generator, of which the
\* periodicities are kept.
LegModels ==
    UNION {[type_of_leg : {t}, leg_number : {1, 2},
            leg_generator : [PeriodicityFields(t) -> Tenors]] : t \in TypeOfLeg}

\* model_dump of the generator: each qcw.Tenor is dumped as the dict of its
\* fields agnos, meses, dias.
GeneratorDump(leg_generator) ==
    [k \in DOMAIN leg_generator |->
        [agnos |-> leg_generator[k].agnos, meses |-> leg_generator[k].meses,
         dias |-> leg_generator[k].dias]]

\* XxxLegModel.custom_dump: type, number and the generator's dump, flattened
\* into one dict.
custom_dump(leg) ==
    [k \in {"type_of_leg", "leg_number"} \cup DOMAIN leg.leg_generator |->
        CASE k = "type_of_leg" -> leg.type_of_leg
          [] k = "leg_number" -> leg.leg_number
          [] OTHER -> GeneratorDump(leg.leg_generator)[k]]

\* aux_make_leg_2 returns the tuple (agnos, dias, meses).
aux_make_leg_2(raw_leg, which) ==
    <<raw_leg[which]["agnos"], raw_leg[which]["dias"], raw_leg[which]["meses"]>>

\* The callers unpack the tuple as agnos, meses, dias and build the Tenor from
\* the three names.
UnpackedTenor(raw_leg, which) ==
    LET agnos == aux_make_leg_2(raw_leg, which)[1]
        meses == aux_make_leg_2(raw_leg, which)[2]
        dias  == aux_make_leg_2(raw_leg, which)[3]
    IN  Tenor(agnos, meses, dias)

make_fixed_rate_leg_generator(raw_leg) ==
    [periodicity |-> UnpackedTenor(raw_leg, "periodicity")]

make_ibor_leg_generator(raw_leg) ==
    [settlement_periodicity |-> UnpackedTenor(raw_leg, "settlement_periodicity"),
     fixing_periodicity |-> UnpackedTenor(raw_leg, "fixing_periodicity")]

\* make_overnight_index_leg_generator, make_icpclf_leg_generator and
\* make_compounded_overnight_rate_leg_generator read the same periodicity.
make_overnight_leg_generator(raw_leg) ==
    [settlement_periodicity |-> UnpackedTenor(raw_leg, "settlement_periodicity")]

\* make_leg: one branch per leg type; every make_xxx_leg sets the type of its
\* branch and the number of the record.
MakeLeg(raw_leg) ==
    LET type_of_leg == raw_leg["type_of_leg"]
    IN  [type_of_leg |-> type_of_leg,
         leg_number |-> raw_leg["leg_number"],
         leg_generator |->
            CASE type_of_leg \in {"fixed_rate", "fixed_rate_mccy"} ->
                    make_fixed_rate_leg_generator(raw_leg)
              [] type_of_leg \in {"ibor", "ibor_mccy"} ->
                    make_ibor_leg_generator(raw_leg)
              [] OTHER -> make_overnight_leg_generator(raw_leg)]

\* The stored leg is dumped and rebuilt from the dump.
make_leg ==
    /\ query' = [op |-> "make_leg", leg |-> portfolio[1],
                 raw_leg |-> custom_dump(portfolio[1]),
                 result |-> MakeLeg(custom_dump(portfolio[1]))]
    /\ UNCHANGED <<zero_coupon_curves, curve_scenario, fx_rate_index_values, fx_scenario,
                   constructed, last, historic_index_values, valuer, portfolio>>

InitRebuild ==
    /\ zero_coupon_curves \in ValStores
    /\ curve_scenario = InitScenario(zero_coupon_curves)
    /\ fx_rate_index_values = ValFx
    /\ fx_scenario = InitFxScenario(fx_rate_index_values)
    /\ constructed = [curves |-> zero_coupon_curves, fx |-> fx_rate_index_values]
    /\ last = NoCall
    /\ historic_index_values \in RegHistories
    /\ valuer = DefaultValuer
    /\ portfolio \in {<<leg>> : leg \in LegModels}
    /\ query = NoQuery

NextRebuild == make_leg

SpecRebuild == InitRebuild /\ [][NextRebuild]_vars

\* C30: a leg rebuilt by make_leg from its custom_dump has the leg type, the
\* leg number and, for each of its periodicities, the years, months and days
\* of the leg that was dumped.
C30_RebuildKeepsPeriodicities ==
    query.op = "make_leg" =>
        /\ query.result.type_of_leg = query.leg.type_of_leg
        /\ query.result.leg_number = query.leg.leg_number
        /\ \A k \in DOMAIN query.leg.leg_generator :
              /\ query.result.leg_generator[k].agnos = query.leg.leg_generator[k].agnos
              /\ query.result.leg_generator[k].meses = query.leg.leg_generator[k].meses
              /\ query.result.leg_generator[k].dias = query.leg.leg_generator[k].dias

====
